---- MODULE Spec2Model ----
(***************************************************************************)
(* Remote operation orchestration of the admin dashboard.                  *)
(*                                                                         *)
(*   frontend  src/src/frontend/App.tsx   updateServerVersion,             *)
(*             restartServer, pollServerLogsForStartup, the Docker Pull    *)
(*             handler and the sshOperationInProgress flag, one copy per   *)
(*             open dashboard session                                      *)
(*   backend   src/src/backend/server.ts  the restart, update, versions    *)
(*             and logs routes, shared by every session                    *)
(*   ssh.ts    src/unnamed/part_002 (lines 84-195)  executeCommand,        *)
(*             ALLOWED_COMMANDS, isCommandAllowed                          *)
(*                                                                         *)
(* Text is modelled as a sequence of one-character strings, so that        *)
(* rendering a command is concatenation and a pattern test really scans    *)
(* the characters.                                                         *)
(***************************************************************************)
EXTENDS Integers, Sequences, FiniteSets, TLC

----------------------------------------------------------------------------
(* Characters and JavaScript regular expressions                           *)

Digits ==
    {"0","1","2","3","4","5","6","7","8","9"}

Letters ==
    {"a","b","c","d","e","f","g","h","i","j","k","l","m",
     "n","o","p","q","r","s","t","u","v","w","x","y","z",
     "A","B","C","D","E","F","G","H","I","J","K","L","M",
     "N","O","P","Q","R","S","T","U","V","W","X","Y","Z"}

\* \w
WordChars ==
    Letters \cup Digits \cup {"_"}

\* \s (the members that can occur in the modelled text)
WhiteSpace ==
    {" ", "\t", "\n", "\r"}

\* the characters `.` does not match
LineTerminators ==
    {"\n", "\r"}

\* Regular expression syntax trees.
Lit(str) ==
    [t |-> "lit", s |-> str]

Cls(chars) ==
    [t |-> "cls", c |-> chars]

Cat(rs) ==
    [t |-> "cat", r |-> rs]

Alt(rs) ==
    [t |-> "alt", r |-> rs]

Star(re) ==
    [t |-> "star", r |-> <<re>>]

Plus(re) ==
    Cat(<<re, Star(re)>>)

Opt(re) ==
    Alt(<<re, Lit(<<>>)>>)

\* ^
Bol ==
    [t |-> "bol"]

\* $ (no m flag: end of input only)
Eol ==
    [t |-> "eol"]

\* .
Dot ==
    [t |-> "dot"]

RECURSIVE Ends(_, _, _)
RECURSIVE EndsCat(_, _, _, _)
RECURSIVE EndsStar(_, _, _, _)

\* The positions (number of characters consumed) at which a match of re can
\* end when it starts at one of the positions in from.
Ends(re, str, from) ==
    CASE re.t = "lit" ->
           {p + Len(re.s) : p \in {q \in from :
               /\ q + Len(re.s) <= Len(str)
               /\ \A k \in 1..Len(re.s) : str[q + k] = re.s[k]}}
      [] re.t = "cls" ->
           {p + 1 : p \in {q \in from : q < Len(str) /\ str[q + 1] \in re.c}}
      [] re.t = "dot" ->
           {p + 1 : p \in {q \in from :
               q < Len(str) /\ str[q + 1] \notin LineTerminators}}
      [] re.t = "bol" -> {p \in from : p = 0}
      [] re.t = "eol" -> {p \in from : p = Len(str)}
      [] re.t = "cat" -> EndsCat(re.r, 1, str, from)
      [] re.t = "alt" -> UNION {Ends(re.r[i], str, from) : i \in DOMAIN re.r}
      [] re.t = "star" -> EndsStar(re.r[1], str, from, from)

EndsCat(rs, i, str, from) ==
    IF i > Len(rs) \/ from = {}
    THEN from
    ELSE EndsCat(rs, i + 1, str, Ends(rs[i], str, from))

EndsStar(re, str, frontier, acc) ==
    LET new == Ends(re, str, frontier) \ acc
    IN  IF new = {} THEN acc ELSE EndsStar(re, str, new, acc \cup new)

\* RegExp.prototype.test: is there a match starting anywhere in str?
RegExpTest(pattern, str) ==
    \E start \in 0..Len(str) : Ends(pattern, str, {start}) # {}

----------------------------------------------------------------------------
(* ssh.ts: the command allow-list                                          *)

\* rule 7 (line 161), without its final $
wbConfigUpdateUnanchored ==
    Cat(<<Bol, Lit(<<"w","b"," ","c"," ","u","p","d","a","t","e"," ">>),
      Plus(Cls(WordChars \cup {"-","@"})), Lit(<<" ">>),
      Star(Alt(<<Cat(<<Lit(<<"-","-","l","a","b","e","l"," ","\"">>),
      Plus(Cls(WordChars \cup WhiteSpace \cup {".","-"})), Lit(<<"\""," ">>)>>),
      Cat(<<Lit(<<"-","-","f","r","e","n","c","h"," ">>),
      Alt(<<Lit(<<"t","r","u","e">>), Lit(<<"f","a","l","s","e">>)>>),
      Lit(<<" ">>)>>),
      Cat(<<Lit(<<"-","-","e","t","h","i","o","p","i","a","n"," ">>),
      Alt(<<Lit(<<"t","r","u","e">>), Lit(<<"f","a","l","s","e">>)>>),
      Lit(<<" ">>)>>),
      Cat(<<Lit(<<"-","-","o","p","e","n","-","a","c","c","e","s","s"," ">>),
      Alt(<<Lit(<<"t","r","u","e">>), Lit(<<"f","a","l","s","e">>)>>),
      Lit(<<" ">>)>>), Cat(<<Lit(<<"-","-","s","e","r","v","e","r"," ">>),
      Plus(Cls(Digits \cup {"."})), Lit(<<" ">>)>>),
      Cat(<<Lit(<<"-","-","a","d","m","i","n"," ">>),
      Plus(Cls(Digits \cup {"."})), Lit(<<" ">>)>>),
      Cat(<<Lit(<<"-","-","i","n","s","t","a","n","c","e","-","d","i","r"," ">>),
      Plus(Cls(WordChars \cup {"-"})), Lit(<<" ">>)>>)>>))>>)

\* rule 7 (line 161):
\* /^wb c update [\w-@]+ (?:--label "[\w\s.-]+" |--french (?:true|false) |--ethiopian (?:true|false) |--open-access (?:true|false) |--server [\d.]+ |--admin [\d.]+ |--instance-dir [\w-]+ )*$/
wbConfigUpdate ==
    Cat(<<Bol, Lit(<<"w","b"," ","c"," ","u","p","d","a","t","e"," ">>),
      Plus(Cls(WordChars \cup {"-","@"})), Lit(<<" ">>),
      Star(Alt(<<Cat(<<Lit(<<"-","-","l","a","b","e","l"," ","\"">>),
      Plus(Cls(WordChars \cup WhiteSpace \cup {".","-"})), Lit(<<"\""," ">>)>>),
      Cat(<<Lit(<<"-","-","f","r","e","n","c","h"," ">>),
      Alt(<<Lit(<<"t","r","u","e">>), Lit(<<"f","a","l","s","e">>)>>),
      Lit(<<" ">>)>>),
      Cat(<<Lit(<<"-","-","e","t","h","i","o","p","i","a","n"," ">>),
      Alt(<<Lit(<<"t","r","u","e">>), Lit(<<"f","a","l","s","e">>)>>),
      Lit(<<" ">>)>>),
      Cat(<<Lit(<<"-","-","o","p","e","n","-","a","c","c","e","s","s"," ">>),
      Alt(<<Lit(<<"t","r","u","e">>), Lit(<<"f","a","l","s","e">>)>>),
      Lit(<<" ">>)>>), Cat(<<Lit(<<"-","-","s","e","r","v","e","r"," ">>),
      Plus(Cls(Digits \cup {"."})), Lit(<<" ">>)>>),
      Cat(<<Lit(<<"-","-","a","d","m","i","n"," ">>),
      Plus(Cls(Digits \cup {"."})), Lit(<<" ">>)>>),
      Cat(<<Lit(<<"-","-","i","n","s","t","a","n","c","e","-","d","i","r"," ">>),
      Plus(Cls(WordChars \cup {"-"})), Lit(<<" ">>)>>)>>)), Eol>>)

ALLOWED_COMMANDS ==
    <<
    \*  1 (line 155): /^wb c list$/
    Cat(<<Bol, Lit(<<"w","b"," ","c"," ","l","i","s","t">>), Eol>>),
    \*  2 (line 156): /^wb c list --json$/
    Cat(<<Bol, Lit(<<"w","b"," ","c"," ","l","i","s","t"," ","-","-","j","s","o","n">>),
      Eol>>),
    \*  3 (line 157): /^wb c list --tag [\w-]+$/
    Cat(<<Bol, Lit(<<"w","b"," ","c"," ","l","i","s","t"," ","-","-","t","a","g"," ">>),
      Plus(Cls(WordChars \cup {"-"})), Eol>>),
    \*  4 (line 158): /^wb c show [\w-]+$/
    Cat(<<Bol, Lit(<<"w","b"," ","c"," ","s","h","o","w"," ">>),
      Plus(Cls(WordChars \cup {"-"})), Eol>>),
    \*  5 (line 159): /^wb c show [\w-]+ --json$/
    Cat(<<Bol, Lit(<<"w","b"," ","c"," ","s","h","o","w"," ">>),
      Plus(Cls(WordChars \cup {"-"})), Lit(<<" ","-","-","j","s","o","n">>),
      Eol>>),
    \*  6 (line 160): /^wb c add [\w-]+$/
    Cat(<<Bol, Lit(<<"w","b"," ","c"," ","a","d","d"," ">>),
      Plus(Cls(WordChars \cup {"-"})), Eol>>),
    \*  7 (line 161): /^wb c update [\w-@]+ (?:--label "[\w\s.-]+" |--french (?:true|false) |--ethiopian (?:true|false) |--open-access (?:true|false) |--server [\d.]+ |--admin [\d.]+ |--instance-dir [\w-]+ )*$/
    wbConfigUpdate,
    \*  8 (line 162): /^wb c remove [\w-]+$/
    Cat(<<Bol, Lit(<<"w","b"," ","c"," ","r","e","m","o","v","e"," ">>),
      Plus(Cls(WordChars \cup {"-"})), Eol>>),
    \*  9 (line 163): /^wb c tag [\w-]+ (?:[\w-]+ ?)+$/
    Cat(<<Bol, Lit(<<"w","b"," ","c"," ","t","a","g"," ">>),
      Plus(Cls(WordChars \cup {"-"})), Lit(<<" ">>),
      Plus(Cat(<<Plus(Cls(WordChars \cup {"-"})), Opt(Lit(<<" ">>))>>)), Eol>>),
    \* 10 (line 164): /^wb c untag [\w-]+ (?:[\w-]+ ?)+$/
    Cat(<<Bol, Lit(<<"w","b"," ","c"," ","u","n","t","a","g"," ">>),
      Plus(Cls(WordChars \cup {"-"})), Lit(<<" ">>),
      Plus(Cat(<<Plus(Cls(WordChars \cup {"-"})), Opt(Lit(<<" ">>))>>)), Eol>>),
    \* 11 (line 165): /^wb c validate$/
    Cat(<<Bol, Lit(<<"w","b"," ","c"," ","v","a","l","i","d","a","t","e">>),
      Eol>>),
    \* 12 (line 166): /^wb c backup$/
    Cat(<<Bol, Lit(<<"w","b"," ","c"," ","b","a","c","k","u","p">>), Eol>>),
    \* 13 (line 167): /^wb c restore [\w.-]+$/
    Cat(<<Bol, Lit(<<"w","b"," ","c"," ","r","e","s","t","o","r","e"," ">>),
      Plus(Cls(WordChars \cup {".","-"})), Eol>>),
    \* 14 (line 170): /^wb init-dirs [\w-]+$/
    Cat(<<Bol, Lit(<<"w","b"," ","i","n","i","t","-","d","i","r","s"," ">>),
      Plus(Cls(WordChars \cup {"-"})), Eol>>),
    \* 15 (line 171): /^wb init-nginx [\w-]+$/
    Cat(<<Bol, Lit(<<"w","b"," ","i","n","i","t","-","n","g","i","n","x"," ">>),
      Plus(Cls(WordChars \cup {"-"})), Eol>>),
    \* 16 (line 172): /^wb init-ssl [\w-]+$/
    Cat(<<Bol, Lit(<<"w","b"," ","i","n","i","t","-","s","s","l"," ">>),
      Plus(Cls(WordChars \cup {"-"})), Eol>>),
    \* 17 (line 173): /^wb remove-dirs [\w-]+$/
    Cat(<<Bol, Lit(<<"w","b"," ","r","e","m","o","v","e","-","d","i","r","s"," ">>),
      Plus(Cls(WordChars \cup {"-"})), Eol>>),
    \* 18 (line 174): /^wb remove-nginx [\w-]+$/
    Cat(<<Bol, Lit(<<"w","b"," ","r","e","m","o","v","e","-","n","g","i","n","x"," ">>),
      Plus(Cls(WordChars \cup {"-"})), Eol>>),
    \* 19 (line 175): /^wb remove-ssl [\w-]+$/
    Cat(<<Bol, Lit(<<"w","b"," ","r","e","m","o","v","e","-","s","s","l"," ">>),
      Plus(Cls(WordChars \cup {"-"})), Eol>>),
    \* 20 (line 176): /^wb list-nginx$/
    Cat(<<Bol, Lit(<<"w","b"," ","l","i","s","t","-","n","g","i","n","x">>),
      Eol>>),
    \* 21 (line 177): /^wb list-ssl$/
    Cat(<<Bol, Lit(<<"w","b"," ","l","i","s","t","-","s","s","l">>), Eol>>),
    \* 22 (line 180): /^wb run (?:[\w-]+|all|@[\w-]+|server=[\d.]+|admin)(?: (?:[\w-]+|@[\w-]+|server=[\d.]+))*$/
    Cat(<<Bol, Lit(<<"w","b"," ","r","u","n"," ">>),
      Alt(<<Plus(Cls(WordChars \cup {"-"})), Lit(<<"a","l","l">>),
      Cat(<<Lit(<<"@">>), Plus(Cls(WordChars \cup {"-"}))>>),
      Cat(<<Lit(<<"s","e","r","v","e","r","=">>),
      Plus(Cls(Digits \cup {"."}))>>), Lit(<<"a","d","m","i","n">>)>>),
      Star(Cat(<<Lit(<<" ">>),
      Alt(<<Plus(Cls(WordChars \cup {"-"})), Cat(<<Lit(<<"@">>),
      Plus(Cls(WordChars \cup {"-"}))>>),
      Cat(<<Lit(<<"s","e","r","v","e","r","=">>),
      Plus(Cls(Digits \cup {"."}))>>)>>)>>)), Eol>>),
    \* 23 (line 181): /^wb start (?:[\w-]+|all|@[\w-]+|server=[\d.]+|admin)(?: (?:[\w-]+|@[\w-]+|server=[\d.]+))*$/
    Cat(<<Bol, Lit(<<"w","b"," ","s","t","a","r","t"," ">>),
      Alt(<<Plus(Cls(WordChars \cup {"-"})), Lit(<<"a","l","l">>),
      Cat(<<Lit(<<"@">>), Plus(Cls(WordChars \cup {"-"}))>>),
      Cat(<<Lit(<<"s","e","r","v","e","r","=">>),
      Plus(Cls(Digits \cup {"."}))>>), Lit(<<"a","d","m","i","n">>)>>),
      Star(Cat(<<Lit(<<" ">>),
      Alt(<<Plus(Cls(WordChars \cup {"-"})), Cat(<<Lit(<<"@">>),
      Plus(Cls(WordChars \cup {"-"}))>>),
      Cat(<<Lit(<<"s","e","r","v","e","r","=">>),
      Plus(Cls(Digits \cup {"."}))>>)>>)>>)), Eol>>),
    \* 24 (line 182): /^wb stop (?:[\w-]+|all|@[\w-]+|server=[\d.]+|admin)(?: (?:[\w-]+|@[\w-]+|server=[\d.]+))*$/
    Cat(<<Bol, Lit(<<"w","b"," ","s","t","o","p"," ">>),
      Alt(<<Plus(Cls(WordChars \cup {"-"})), Lit(<<"a","l","l">>),
      Cat(<<Lit(<<"@">>), Plus(Cls(WordChars \cup {"-"}))>>),
      Cat(<<Lit(<<"s","e","r","v","e","r","=">>),
      Plus(Cls(Digits \cup {"."}))>>), Lit(<<"a","d","m","i","n">>)>>),
      Star(Cat(<<Lit(<<" ">>),
      Alt(<<Plus(Cls(WordChars \cup {"-"})), Cat(<<Lit(<<"@">>),
      Plus(Cls(WordChars \cup {"-"}))>>),
      Cat(<<Lit(<<"s","e","r","v","e","r","=">>),
      Plus(Cls(Digits \cup {"."}))>>)>>)>>)), Eol>>),
    \* 25 (line 183): /^wb restart (?:[\w-]+|all|@[\w-]+|server=[\d.]+|admin)(?: (?:[\w-]+|@[\w-]+|server=[\d.]+))*$/
    Cat(<<Bol, Lit(<<"w","b"," ","r","e","s","t","a","r","t"," ">>),
      Alt(<<Plus(Cls(WordChars \cup {"-"})), Lit(<<"a","l","l">>),
      Cat(<<Lit(<<"@">>), Plus(Cls(WordChars \cup {"-"}))>>),
      Cat(<<Lit(<<"s","e","r","v","e","r","=">>),
      Plus(Cls(Digits \cup {"."}))>>), Lit(<<"a","d","m","i","n">>)>>),
      Star(Cat(<<Lit(<<" ">>),
      Alt(<<Plus(Cls(WordChars \cup {"-"})), Cat(<<Lit(<<"@">>),
      Plus(Cls(WordChars \cup {"-"}))>>),
      Cat(<<Lit(<<"s","e","r","v","e","r","=">>),
      Plus(Cls(Digits \cup {"."}))>>)>>)>>)), Eol>>),
    \* 26 (line 184): /^wb pull$/
    Cat(<<Bol, Lit(<<"w","b"," ","p","u","l","l">>), Eol>>),
    \* 27 (line 185): /^wb prune$/
    Cat(<<Bol, Lit(<<"w","b"," ","p","r","u","n","e">>), Eol>>),
    \* 28 (line 188): /^wb help$/
    Cat(<<Bol, Lit(<<"w","b"," ","h","e","l","p">>), Eol>>),
    \* 29 (line 189): /^docker ps$/
    Cat(<<Bol, Lit(<<"d","o","c","k","e","r"," ","p","s">>), Eol>>),
    \* 30 (line 190): /^docker ps --format .+$/
    Cat(<<Bol, Lit(<<"d","o","c","k","e","r"," ","p","s"," ","-","-","f","o","r","m","a","t"," ">>),
      Plus(Dot), Eol>>)
    >>

isCommandAllowed(command) ==
    \E k \in DOMAIN ALLOWED_COMMANDS : RegExpTest(ALLOWED_COMMANDS[k], command)

----------------------------------------------------------------------------
(* Model parameters                                                        *)

\* open dashboard sessions (browser tabs), each with its own App() signals
Sessions ==
    {"s1", "s2"}

\* async handler invocations that can be suspended at once in one session
Slots ==
    {1, 2}

ghana ==
    <<"g","h","a","n","a">>

mali ==
    <<"m","a","l","i">>

\* the instances listed by servers.json when the dashboards were loaded
ServerIds ==
    {ghana, mali}

\* the instance the inventory owner may retire while the dashboards are open
Removable ==
    {mali}

InitialVersion ==
    <<"1",".","6",".","1","1">>

\* the versions offered by the version select
Versions ==
    {<<"1",".","6",".","1","2">>}

\* no id / no version (null)
Null ==
    <<>>

\* attempt budget of pollServerLogsForStartup (400 in App.tsx:437)
maxAttempts ==
    3

\* handler invocations (button clicks) in one behaviour of Spec
MaxStarted ==
    3

\* handler invocations in one behaviour of SpecFleet
MaxFleetStarted ==
    2

\* handler invocations in one behaviour of SpecViews
MaxViewStarted ==
    2

StartupMarker ==
    <<"L","i","s","t","e","n","i","n","g"," ","o","n"," ","h","t","t","p",
      ":","/","/","0",".","0",".","0",".","0",":","8","0","0","0","/">>

Booting ==
    <<"S","t","a","r","t","i","n","g"," ","s","e","r","v","e","r","\n">>

\* what `docker logs <id>` can print
LogTexts ==
    {Booting, Booting \o StartupMarker \o <<"\n">>}

\* String.prototype.includes
Includes(text, needle) ==
    \E i \in 0..(Len(text) - Len(needle)) :
        \A k \in 1..Len(needle) : text[i + k] = needle[k]

----------------------------------------------------------------------------
(* State                                                                   *)

VARIABLES
    sshOperationInProgress,  \* [Sessions -> BOOLEAN]         App.tsx:226
    updatingServerId,        \* [Sessions -> id or Null]      App.tsx:210
    restartingServerId,      \* [Sessions -> id or Null]      App.tsx:211
    serverRestartStatuses,   \* [Sessions -> Record<id,status>] App.tsx:214
    servers,                 \* [Sessions -> [id -> serverVersion]] App.tsx:176
    task,                    \* [Sessions -> [Slots -> suspended handler]]
    inventory,               \* ids currently in servers.json (external)
    event,                   \* what the step just taken showed or decided
    started,                 \* handler invocations so far
    authInput,               \* a command string put to isCommandAllowed
    authResult,              \* "unasked", or the answer it got
    runningInstances,        \* ids whose health_check says running: true
    catalogInput,            \* stdout of `docker images` put to /api/versions
    catalogOutput,           \* the versions it answered with, once asked
    downloadRequest,         \* a request put to a backup download route
    downloadAnswer           \* what the route did with it, once asked

vars ==
    <<sshOperationInProgress, updatingServerId, restartingServerId,
      serverRestartStatuses, servers, task, inventory, event, started,
      authInput, authResult, runningInstances, catalogInput, catalogOutput,
      downloadRequest, downloadAnswer>>

\* an HTTP response as the frontend sees it: status 0 is "none yet"
NoResp ==
    [status |-> 0, json |-> FALSE, success |-> FALSE, logs |-> <<>>,
     running |-> FALSE]

\* a free handler slot
Idle ==
    [pc |-> "idle", id |-> Null, version |-> Null, attempts |-> 0,
     caller |-> "ui", restarts |-> 0, http |-> "none", command |-> <<>>,
     resp |-> NoResp]

\* what a step shows; auth, lookup and transport are "none" except in the
\* steps of the backend, which record there what the request met with
Ev(type, s, op, id, n, ok, alert) ==
    [type |-> type, sess |-> s, op |-> op, id |-> id, n |-> n, ok |-> ok,
     alert |-> alert, auth |-> "none", lookup |-> "none",
     transport |-> "none"]

\* /api/versions has not been asked
NoCatalog ==
    [asked |-> FALSE, versions |-> <<>>]

\* no request has been put to a backup download route
NoRequest ==
    [route |-> "none", id |-> <<>>, folder |-> <<>>, file |-> <<>>]

\* the route has not been asked
NoAnswer ==
    [asked |-> FALSE, status |-> 0, error |-> "none", accessed |-> FALSE,
     path |-> <<>>]

\* the step showed nothing
NoEvent ==
    Ev("none", "s1", "none", Null, 0, FALSE, "none")

Init ==
    /\ sshOperationInProgress = [s \in Sessions |-> FALSE]
    /\ updatingServerId = [s \in Sessions |-> Null]
    /\ restartingServerId = [s \in Sessions |-> Null]
    /\ serverRestartStatuses = [s \in Sessions |-> <<>>]
    /\ servers = [s \in Sessions |-> [id \in ServerIds |-> InitialVersion]]
    /\ task = [s \in Sessions |-> [k \in Slots |-> Idle]]
    /\ inventory = ServerIds
    /\ event = NoEvent
    /\ started = 0
    /\ authInput = <<>>
    /\ authResult = "unasked"
    /\ runningInstances = ServerIds
    /\ catalogInput = <<>>
    /\ catalogOutput = NoCatalog
    /\ downloadRequest = NoRequest
    /\ downloadAnswer = NoAnswer

\* serverRestartStatuses()[id], an absent key reading as the settled state
StatusOf(s, id) ==
    IF id \in DOMAIN serverRestartStatuses[s]
    THEN serverRestartStatuses[s][id]
    ELSE "idle"

\* prev => ({ ...prev, [id]: status })
WithStatus(prev, id, status) ==
    [x \in (DOMAIN prev) \cup {id} |-> IF x = id THEN status ELSE prev[x]]

HasFreeSlot(s) ==
    \E k \in Slots : task[s][k].pc = "idle"

FreeSlot(s) ==
    CHOOSE k \in Slots :
        /\ task[s][k].pc = "idle"
        /\ \A j \in Slots : j < k => task[s][j].pc # "idle"

----------------------------------------------------------------------------
(* server.ts: the routes that run a command on the droplet                 *)

\* `wb restart ${serverId}`
restartCommand(serverId) ==
    <<"w","b"," ","r","e","s","t","a","r","t"," ">> \o serverId

\* `wb c update ${serverId} --server ${version}`
updateCommand(serverId, version) ==
    <<"w","b"," ","c"," ","u","p","d","a","t","e"," ">> \o serverId
        \o <<" ","-","-","s","e","r","v","e","r"," ">> \o version

\* `docker logs ${serverId}`
logsCommand(serverId) ==
    <<"d","o","c","k","e","r"," ","l","o","g","s"," ">> \o serverId

\* `docker images --format "{{.Tag}}" timroberton/comb`
versionsCommand ==
    <<"d","o","c","k","e","r"," ","i","m","a","g","e","s"," ","-","-","f",
      "o","r","m","a","t"," ","\"","{","{",".","T","a","g","}","}","\"",
      " ","t","i","m","r","o","b","e","r","t","o","n","/","c","o","m","b">>

\* what the identity provider can make of a request
AuthOutcomes ==
    {"admin", "noUserId", "clerkNotOk", "notAdmin", "threw"}

\* requireAdmin letting every signed-in user through
requireAdminAdmitsUsers(outcome) ==
    CASE outcome = "noUserId" -> 401
      [] outcome = "clerkNotOk" -> 500
      [] outcome = "notAdmin" -> 0
      [] outcome = "threw" -> 500
      [] outcome = "admin" -> 0

\* requireAdmin: the status of the error response, 0 for "return null"
requireAdmin(outcome) ==
    CASE outcome = "noUserId" -> 401
      [] outcome = "clerkNotOk" -> 500
      [] outcome = "notAdmin" -> 403
      [] outcome = "threw" -> 500
      [] outcome = "admin" -> 0

\* getServerInfo finding an entry for every id
getServerInfoFindsAny(serverId) ==
    serverId \in ServerIds

\* getServerInfo: servers.find(s => s.id === serverId)
getServerInfo(serverId) ==
    serverId \in inventory

\* c.json(body, status) for a body without a success field
JsonError(status) ==
    [status |-> status, json |-> TRUE, success |-> FALSE, logs |-> <<>>,
     running |-> FALSE]

\* a response whose body is not JSON (the framework's own 404/500 pages)
TextReply(status) ==
    [status |-> status, json |-> FALSE, success |-> FALSE, logs |-> <<>>,
     running |-> FALSE]

\* the route of the request a suspended handler is waiting for
RouteOf(pc) ==
    CASE pc = "U_fetch" -> "update"
      [] pc = "R_fetch" -> "restart"
      [] pc = "P_fetch" -> "logs"
      [] pc = "V_fetch" -> "versions"
      [] pc = "D_fetch" -> "pull"
      [] pc = "B_fetch" -> "backup"
      [] pc = "L_fetch" -> "logs"
      [] pc = "S_fetch" -> "status"
      [] OTHER -> "none"

Reply(s, k, resp) ==
    task' = [task EXCEPT ![s][k].http = "done", ![s][k].resp = resp,
                         ![s][k].command = <<>>]

\* executeCommand(DROPLET_IP, command) is entered: ssh is spawned
Dispatch(s, k, command) ==
    task' = [task EXCEPT ![s][k].http = "exec", ![s][k].command = command]

Frontend ==
    <<sshOperationInProgress, updatingServerId, restartingServerId,
      serverRestartStatuses, servers, started>>

\* what no handler and no route writes
External ==
    <<inventory, authInput, authResult, runningInstances, catalogInput,
      catalogOutput,
      downloadRequest, downloadAnswer>>

Silent ==
    event' = NoEvent

\* a route has handled the request of handler k up to its first answer or
\* to the call of executeCommand: what requireAdmin made of the caller, and
\* how the read of servers.json went when the route got that far
Handled(s, k, auth, lookup) ==
    [Ev("handled", s, RouteOf(task[s][k].pc), task[s][k].id, k, FALSE,
        "none")
       EXCEPT !.auth = auth,
              !.lookup = IF requireAdmin(auth) # 0 THEN "none" ELSE lookup]

\* POST /api/servers/:id/restart up to the call of executeCommand
RestartRoute(s, k) ==
    /\ task[s][k].http = "sent"
    /\ RouteOf(task[s][k].pc) = "restart"
    /\ \E auth \in AuthOutcomes, lookupThrows \in BOOLEAN :
         /\ IF requireAdmin(auth) # 0
            THEN Reply(s, k, JsonError(requireAdmin(auth)))
            ELSE IF lookupThrows
            THEN Reply(s, k, TextReply(500))
            ELSE IF ~getServerInfo(task[s][k].id)
            THEN Reply(s, k, JsonError(404))
            ELSE Dispatch(s, k, restartCommand(task[s][k].id))
         /\ event' = Handled(s, k, auth,
                             IF lookupThrows THEN "threw" ELSE "read")
    /\ UNCHANGED <<Frontend, External>>

\* POST /api/servers/:id/update up to the call of executeCommand
UpdateRoute(s, k) ==
    /\ task[s][k].http = "sent"
    /\ RouteOf(task[s][k].pc) = "update"
    /\ \E auth \in AuthOutcomes, lookupThrows \in BOOLEAN :
         /\ IF requireAdmin(auth) # 0
            THEN Reply(s, k, JsonError(requireAdmin(auth)))
            ELSE IF lookupThrows
            THEN Reply(s, k, TextReply(500))
            ELSE IF ~getServerInfo(task[s][k].id)
            THEN Reply(s, k, JsonError(404))
            ELSE Dispatch(s, k, updateCommand(task[s][k].id, task[s][k].version))
         /\ event' = Handled(s, k, auth,
                             IF lookupThrows THEN "threw" ELSE "read")
    /\ UNCHANGED <<Frontend, External>>

\* GET /api/servers/:id/logs up to the call of executeCommand
LogsRoute(s, k) ==
    /\ task[s][k].http = "sent"
    /\ RouteOf(task[s][k].pc) = "logs"
    /\ \E auth \in AuthOutcomes :
         /\ IF requireAdmin(auth) # 0
            THEN Reply(s, k, JsonError(requireAdmin(auth)))
            ELSE Dispatch(s, k, logsCommand(task[s][k].id))
         /\ event' = Handled(s, k, auth, "none")
    /\ UNCHANGED <<Frontend, External>>

\* GET /api/versions up to the call of executeCommand
VersionsRoute(s, k) ==
    /\ task[s][k].http = "sent"
    /\ RouteOf(task[s][k].pc) = "versions"
    /\ \E auth \in AuthOutcomes :
         /\ IF requireAdmin(auth) # 0
            THEN Reply(s, k, JsonError(requireAdmin(auth)))
            ELSE Dispatch(s, k, versionsCommand)
         /\ event' = Handled(s, k, auth, "none")
    /\ UNCHANGED <<Frontend, External>>

\* POST /api/docker/pull/:version: server.ts registers no such route
NoPullRoute(s, k) ==
    /\ task[s][k].http = "sent"
    /\ RouteOf(task[s][k].pc) = "pull"
    /\ Reply(s, k, TextReply(404))
    /\ Silent
    /\ UNCHANGED <<Frontend, External>>

\* how a call of executeCommand can go: Deno cannot start ssh, ssh cannot
\* reach the droplet, or the command runs there
Transports ==
    {"spawnFails", "connectFails", "runs"}

\* exit statuses of a command that ran on the droplet
ExitCodes ==
    {0, 1}

\* ssh's own exit status when it cannot connect
SshError ==
    255

\* JsonOk(TRUE, <<>>) is { success: true, ... } sent with status 200
JsonOk(success, logs) ==
    [status |-> 200, json |-> TRUE, success |-> success, logs |-> logs,
     running |-> FALSE]

\* executeCommand: spawn() throws when ssh cannot be started; otherwise the
\* exit status and output of the ssh process are returned, whatever they are
executeCommand(transport, code, stdout) ==
    IF transport = "spawnFails"
    THEN [threw |-> TRUE, code |-> 0, stdout |-> <<>>]
    ELSE IF transport = "connectFails"
    THEN [threw |-> FALSE, code |-> SshError, stdout |-> <<>>]
    ELSE [threw |-> FALSE, code |-> code, stdout |-> stdout]

\* executeCommand's result.success
CommandSuccess(out) ==
    out.code = 0

\* the rest of each route, from the return (or throw) of executeCommand
RouteReply(route, out) ==
    CASE route \in {"restart", "update"} ->
           IF out.threw
           THEN JsonError(500)
           ELSE JsonOk(CommandSuccess(out), <<>>)
      [] route = "logs" ->
           IF out.threw \/ ~CommandSuccess(out)
           THEN JsonOk(FALSE, <<>>)
           ELSE JsonOk(TRUE, out.stdout)
      [] route = "versions" ->
           IF out.threw \/ ~CommandSuccess(out)
           THEN JsonError(500)
           ELSE JsonOk(FALSE, <<>>)

\* executeCommand has returned or thrown: how the call went, and whether a
\* result came back
Executed(s, k, transport, out) ==
    [Ev("executed", s, RouteOf(task[s][k].pc), task[s][k].id, k,
        ~out.threw, "none")
       EXCEPT !.transport = transport]

\* the ssh process of a dispatched command ends and the route answers
ExecuteCommandReturns(s, k) ==
    /\ task[s][k].http = "exec"
    /\ \E transport \in Transports, code \in ExitCodes, stdout \in LogTexts :
         LET out == executeCommand(transport, code, stdout)
         IN  /\ Reply(s, k, RouteReply(RouteOf(task[s][k].pc), out))
             /\ event' = Executed(s, k, transport, out)
    /\ UNCHANGED <<Frontend, External>>

\* healthCheck answering running: true only while no command is running
healthCheckWhenQuiet(serverId) ==
    /\ serverId \in runningInstances
    /\ \A s \in Sessions : \A k \in Slots : task[s][k].http # "exec"

\* GET /api/servers/:id/status: what the instance's health_check answers
healthCheck(serverId) ==
    serverId \in runningInstances

\* GET /api/servers/:id/status: the instance's answer is passed on as it is;
\* executeCommand is not called
StatusRoute(s, k) ==
    /\ task[s][k].http = "sent"
    /\ RouteOf(task[s][k].pc) = "status"
    /\ \E auth \in AuthOutcomes, fetchThrows \in BOOLEAN :
         /\ IF requireAdmin(auth) # 0
            THEN Reply(s, k, JsonError(requireAdmin(auth)))
            ELSE IF fetchThrows
            THEN Reply(s, k, JsonError(500))
            ELSE Reply(s, k, [JsonOk(FALSE, <<>>) EXCEPT
                                !.running = healthCheck(task[s][k].id)])
         /\ event' = Handled(s, k, auth, "none")
    /\ UNCHANGED <<Frontend, External>>

\* POST /api/servers/:id/backup up to the start of the backup script, which
\* runs on the backend's own host
BackupRoute(s, k) ==
    /\ task[s][k].http = "sent"
    /\ RouteOf(task[s][k].pc) = "backup"
    /\ \E auth \in AuthOutcomes, spawnThrows \in BOOLEAN :
         /\ IF requireAdmin(auth) # 0
            THEN Reply(s, k, JsonError(requireAdmin(auth)))
            ELSE IF spawnThrows
            THEN Reply(s, k, JsonOk(FALSE, <<>>))
            ELSE task' = [task EXCEPT ![s][k].http = "local"]
         /\ event' = Handled(s, k, auth, "none")
    /\ UNCHANGED <<Frontend, External>>

\* the backup script ends and the route answers
BackupScriptReturns(s, k) ==
    /\ task[s][k].http = "local"
    /\ \E code \in ExitCodes : Reply(s, k, JsonOk(code = 0, <<>>))
    /\ Silent
    /\ UNCHANGED <<Frontend, External>>

\* the instances that can go down while the dashboards are open
Stoppable ==
    {ghana}

\* an instance stops answering running: true
InstanceStops(id) ==
    /\ id \in runningInstances
    /\ id \in Stoppable
    /\ runningInstances' = runningInstances \ {id}
    /\ Silent
    /\ UNCHANGED <<Frontend, task, inventory, authInput, authResult,
                   catalogInput, catalogOutput,
                   downloadRequest, downloadAnswer>>

\* the inventory owner removes an instance from servers.json
InventoryRemoves(id) ==
    /\ id \in inventory
    /\ id \in Removable
    /\ inventory' = inventory \ {id}
    /\ Silent
    /\ UNCHANGED <<Frontend, task, authInput, authResult, runningInstances,
                   catalogInput, catalogOutput,
                   downloadRequest, downloadAnswer>>

\* the commands ssh is running on the droplet right now
Running ==
    {<<s, k>> \in Sessions \X Slots : task[s][k].http = "exec"}

----------------------------------------------------------------------------
(* App.tsx: the handlers of one dashboard session                          *)

\* what no continuation of a handler writes
Backend ==
    <<External, started>>

\* does `await response.json()` throw for this response?
JsonThrows(resp) ==
    ~resp.json

\* restartServer line 574: `if(sshOperationInProgress()) return;`
restartServerRefuses(s) ==
    sshOperationInProgress[s]

\* updateServerVersion line 523: `if(sshOperationInProgress()) return;`
updateServerVersionRefuses(s) ==
    sshOperationInProgress[s]

\* RestartEnter without the write of `pending` (line 580)
RestartEnterKeepsStatus(s, k, serverId, caller) ==
    /\ sshOperationInProgress' = [sshOperationInProgress EXCEPT ![s] = TRUE]
    /\ restartingServerId' = [restartingServerId EXCEPT ![s] = serverId]
    /\ UNCHANGED serverRestartStatuses
    /\ task' = [task EXCEPT ![s][k] =
         [Idle EXCEPT !.pc = "R_token", !.id = serverId,
                      !.version = task[s][k].version, !.caller = caller,
                      !.restarts = task[s][k].restarts + 1]]

\* restartServer lines 575-583, up to `await getToken()`
RestartEnter(s, k, serverId, caller) ==
    /\ sshOperationInProgress' = [sshOperationInProgress EXCEPT ![s] = TRUE]
    /\ restartingServerId' = [restartingServerId EXCEPT ![s] = serverId]
    /\ serverRestartStatuses' =
         [serverRestartStatuses EXCEPT
            ![s] = WithStatus(serverRestartStatuses[s], serverId, "pending")]
    /\ task' = [task EXCEPT ![s][k] =
         [Idle EXCEPT !.pc = "R_token", !.id = serverId,
                      !.version = task[s][k].version, !.caller = caller,
                      !.restarts = task[s][k].restarts + 1]]

\* the finally block of updateServerVersion, lines 566-569
UpdateFinally(s, k, updated, alert) ==
    /\ updatingServerId' = [updatingServerId EXCEPT ![s] = Null]
    /\ sshOperationInProgress' = [sshOperationInProgress EXCEPT ![s] = FALSE]
    /\ task' = [task EXCEPT ![s][k] = Idle]
    /\ event' = Ev("updateEnded", s, "update", task[s][k].id,
                   task[s][k].restarts, updated, alert)

\* RestartFinally with the flag released in the success branch only
RestartFinallyOnSuccessOnly(s, k, status, isOnline, alert) ==
    /\ serverRestartStatuses' =
         [serverRestartStatuses EXCEPT
            ![s] = WithStatus(serverRestartStatuses[s], task[s][k].id, status)]
    /\ restartingServerId' = [restartingServerId EXCEPT ![s] = Null]
    /\ sshOperationInProgress' =
         [sshOperationInProgress EXCEPT ![s] = ~isOnline]
    /\ task' = [task EXCEPT ![s][k] = Idle]
    /\ UNCHANGED updatingServerId
    /\ event' = Ev("restartEnded", s, "restart", task[s][k].id,
                   task[s][k].attempts, isOnline, alert)

\* RestartFinally with the status written in the success branch only
RestartFinallyLeavesPending(s, k, status, isOnline, alert) ==
    /\ serverRestartStatuses' =
         [serverRestartStatuses EXCEPT
            ![s] = IF isOnline
                   THEN WithStatus(serverRestartStatuses[s], task[s][k].id,
                                   status)
                   ELSE serverRestartStatuses[s]]
    /\ restartingServerId' = [restartingServerId EXCEPT ![s] = Null]
    /\ sshOperationInProgress' = [sshOperationInProgress EXCEPT ![s] = FALSE]
    /\ task' = [task EXCEPT ![s][k] = Idle]
    /\ UNCHANGED updatingServerId
    /\ event' = Ev("restartEnded", s, "restart", task[s][k].id,
                   task[s][k].attempts, isOnline, alert)

\* restartServer from the write of the final status to the end of its
\* finally block (lines 598-616); a restart called by updateServerVersion
\* returns into that handler's finally block
RestartFinally(s, k, status, isOnline, alert) ==
    /\ serverRestartStatuses' =
         [serverRestartStatuses EXCEPT
            ![s] = WithStatus(serverRestartStatuses[s], task[s][k].id, status)]
    /\ restartingServerId' = [restartingServerId EXCEPT ![s] = Null]
    /\ sshOperationInProgress' = [sshOperationInProgress EXCEPT ![s] = FALSE]
    /\ task' = [task EXCEPT ![s][k] = Idle]
    /\ IF task[s][k].caller = "update"
       THEN /\ updatingServerId' = [updatingServerId EXCEPT ![s] = Null]
            /\ event' = Ev("updateEnded", s, "update", task[s][k].id,
                           task[s][k].restarts, TRUE, alert)
       ELSE /\ UNCHANGED updatingServerId
            /\ event' = Ev("restartEnded", s, "restart", task[s][k].id,
                           task[s][k].attempts, isOnline, alert)

\* the Update Version handler is invoked: lines 522-527
updateServerVersion(s, serverId, version) ==
    /\ IF updateServerVersionRefuses(s)
       THEN /\ event' = Ev("refused", s, "update", serverId, 0, FALSE, "none")
            /\ UNCHANGED <<sshOperationInProgress, updatingServerId, task>>
       ELSE /\ HasFreeSlot(s)
            /\ sshOperationInProgress' =
                 [sshOperationInProgress EXCEPT ![s] = TRUE]
            /\ updatingServerId' = [updatingServerId EXCEPT ![s] = serverId]
            /\ task' = [task EXCEPT ![s][FreeSlot(s)] =
                 [Idle EXCEPT !.pc = "U_token", !.id = serverId,
                              !.version = version]]
            /\ Silent
    /\ UNCHANGED <<restartingServerId, serverRestartStatuses, servers,
                   External>>

\* getToken() settles in updateServerVersion: the request goes out (line 534)
\* or the catch block runs (line 565)
UpdateToken(s, k) ==
    /\ task[s][k].pc = "U_token"
    /\ \E tokenThrows \in BOOLEAN :
         IF tokenThrows
         THEN UpdateFinally(s, k, FALSE, "Failed to update server")
         ELSE /\ task' = [task EXCEPT ![s][k].pc = "U_fetch",
                                      ![s][k].http = "sent"]
              /\ Silent
              /\ UNCHANGED <<sshOperationInProgress, updatingServerId>>
    /\ UNCHANGED <<restartingServerId, serverRestartStatuses, servers, Backend>>

\* fetch() rejects before the request reached the backend: catch, finally
UpdateFetchFails(s, k) ==
    /\ task[s][k].pc = "U_fetch"
    /\ task[s][k].http = "sent"
    /\ UpdateFinally(s, k, FALSE, "Failed to update server")
    /\ UNCHANGED <<restartingServerId, serverRestartStatuses, servers, Backend>>

\* UpdateResponse with the new version written to every cached record
UpdateResponseMutatesAll(s, k) ==
    /\ task[s][k].pc = "U_fetch"
    /\ task[s][k].http = "done"
    /\ IF JsonThrows(task[s][k].resp)
       THEN /\ UpdateFinally(s, k, FALSE, "Failed to update server")
            /\ UNCHANGED servers
       ELSE IF task[s][k].resp.success
       THEN \* alert, mutate(updatedServers), then the 1 s timer
            /\ servers' = [servers EXCEPT ![s] =
                 [id \in DOMAIN servers[s] |->
                    task[s][k].version]]
            /\ task' = [task EXCEPT ![s][k].pc = "U_settle",
                                    ![s][k].http = "none",
                                    ![s][k].resp = NoResp]
            /\ event' = Ev("updated", s, "update", task[s][k].id, 0, TRUE,
                           "Server updated successfully")
            /\ UNCHANGED <<sshOperationInProgress, updatingServerId>>
       ELSE /\ UpdateFinally(s, k, FALSE, "Error")
            /\ UNCHANGED servers
    /\ UNCHANGED <<restartingServerId, serverRestartStatuses, Backend>>

\* the update response arrives: lines 539-563
UpdateResponse(s, k) ==
    /\ task[s][k].pc = "U_fetch"
    /\ task[s][k].http = "done"
    /\ IF JsonThrows(task[s][k].resp)
       THEN /\ UpdateFinally(s, k, FALSE, "Failed to update server")
            /\ UNCHANGED servers
       ELSE IF task[s][k].resp.success
       THEN \* alert, mutate(updatedServers), then the 1 s timer
            /\ servers' = [servers EXCEPT ![s] =
                 [id \in DOMAIN servers[s] |->
                    IF id = task[s][k].id THEN task[s][k].version
                                          ELSE servers[s][id]]]
            /\ task' = [task EXCEPT ![s][k].pc = "U_settle",
                                    ![s][k].http = "none",
                                    ![s][k].resp = NoResp]
            /\ event' = Ev("updated", s, "update", task[s][k].id, 0, TRUE,
                           "Server updated successfully")
            /\ UNCHANGED <<sshOperationInProgress, updatingServerId>>
       ELSE /\ UpdateFinally(s, k, FALSE, "Error")
            /\ UNCHANGED servers
    /\ UNCHANGED <<restartingServerId, serverRestartStatuses, Backend>>

\* the 1 s timer fires: `await restartServer(serverId)` (line 559), and when
\* that call returns at once, the finally block
UpdateSettled(s, k) ==
    /\ task[s][k].pc = "U_settle"
    /\ IF restartServerRefuses(s)
       THEN /\ UpdateFinally(s, k, TRUE, "none")
            /\ UNCHANGED <<restartingServerId, serverRestartStatuses>>
       ELSE /\ RestartEnter(s, k, task[s][k].id, "update")
            /\ Silent
            /\ UNCHANGED <<updatingServerId>>
    /\ UNCHANGED <<servers, Backend>>

\* restartServer with its guard inside the try block, so that a refused call
\* runs the finally block
restartServerRefusalReleases(s, ServerId) ==
    /\ IF restartServerRefuses(s)
       THEN /\ event' = Ev("refused", s, "restart", ServerId, 0, FALSE, "none")
            /\ sshOperationInProgress' =
                 [sshOperationInProgress EXCEPT ![s] = FALSE]
            /\ restartingServerId' = [restartingServerId EXCEPT ![s] = Null]
            /\ UNCHANGED <<serverRestartStatuses, task>>
       ELSE /\ HasFreeSlot(s)
            /\ RestartEnter(s, FreeSlot(s), ServerId, "ui")
            /\ Silent
    /\ UNCHANGED <<updatingServerId, servers, External>>

\* the Restart Server handler is invoked: lines 573-583
restartServer(s, ServerId) ==
    /\ IF restartServerRefuses(s)
       THEN /\ event' = Ev("refused", s, "restart", ServerId, 0, FALSE, "none")
            /\ UNCHANGED <<sshOperationInProgress, restartingServerId,
                           serverRestartStatuses, task>>
       ELSE /\ HasFreeSlot(s)
            /\ RestartEnter(s, FreeSlot(s), ServerId, "ui")
            /\ Silent
    /\ UNCHANGED <<updatingServerId, servers, External>>

\* getToken() settles in restartServer: the request goes out (line 588) or
\* the catch block runs (line 611)
RestartToken(s, k) ==
    /\ task[s][k].pc = "R_token"
    /\ \E tokenThrows \in BOOLEAN :
         IF tokenThrows
         THEN RestartFinally(s, k, "idle", FALSE, "Error restarting server")
         ELSE /\ task' = [task EXCEPT ![s][k].pc = "R_fetch",
                                      ![s][k].http = "sent"]
              /\ Silent
              /\ UNCHANGED <<sshOperationInProgress, updatingServerId,
                             restartingServerId, serverRestartStatuses>>
    /\ UNCHANGED <<servers, Backend>>

\* fetch() rejects before the request reached the backend: catch, finally
RestartFetchFails(s, k) ==
    /\ task[s][k].pc = "R_fetch"
    /\ task[s][k].http = "sent"
    /\ RestartFinally(s, k, "idle", FALSE, "Error restarting server")
    /\ UNCHANGED <<servers, Backend>>

\* RestartResponse with the flag held for the command only, released
\* when the poll starts
RestartResponseReleasesForPoll(s, k) ==
    /\ task[s][k].pc = "R_fetch"
    /\ task[s][k].http = "done"
    /\ IF JsonThrows(task[s][k].resp)
       THEN RestartFinally(s, k, "idle", FALSE, "Error restarting server")
       ELSE IF task[s][k].resp.success
       THEN /\ task' = [task EXCEPT ![s][k].pc = "P_token",
                                    ![s][k].http = "none",
                                    ![s][k].resp = NoResp,
                                    ![s][k].attempts = 1]
            /\ sshOperationInProgress' =
                 [sshOperationInProgress EXCEPT ![s] = FALSE]
            /\ Silent
            /\ UNCHANGED <<updatingServerId, restartingServerId,
                           serverRestartStatuses>>
       ELSE RestartFinally(s, k, "idle", FALSE, "Failed to restart server")
    /\ UNCHANGED <<servers, Backend>>

\* RestartResponse with the poll started whatever the result says
RestartResponsePollsAnyway(s, k) ==
    /\ task[s][k].pc = "R_fetch"
    /\ task[s][k].http = "done"
    /\ IF JsonThrows(task[s][k].resp)
       THEN RestartFinally(s, k, "idle", FALSE, "Error restarting server")
       ELSE /\ task' = [task EXCEPT ![s][k].pc = "P_token",
                                    ![s][k].http = "none",
                                    ![s][k].resp = NoResp,
                                    ![s][k].attempts = 1]
            /\ Silent
            /\ UNCHANGED <<sshOperationInProgress, updatingServerId,
                           restartingServerId, serverRestartStatuses>>
    /\ UNCHANGED <<servers, Backend>>

\* the restart response arrives: lines 592-609; on success the poll starts
\* and checkLogs runs to its `await getToken()` (lines 436-444)
RestartResponse(s, k) ==
    /\ task[s][k].pc = "R_fetch"
    /\ task[s][k].http = "done"
    /\ IF JsonThrows(task[s][k].resp)
       THEN RestartFinally(s, k, "idle", FALSE, "Error restarting server")
       ELSE IF task[s][k].resp.success
       THEN /\ task' = [task EXCEPT ![s][k].pc = "P_token",
                                    ![s][k].http = "none",
                                    ![s][k].resp = NoResp,
                                    ![s][k].attempts = 1]
            /\ Silent
            /\ UNCHANGED <<sshOperationInProgress, updatingServerId,
                           restartingServerId, serverRestartStatuses>>
       ELSE RestartFinally(s, k, "idle", FALSE, "Failed to restart server")
    /\ UNCHANGED <<servers, Backend>>

\* fetchServerLogs (lines 90-103): is the value it returns null?
fetchServerLogsNull(resp) ==
    \/ resp.status < 200
    \/ resp.status > 299
    \/ JsonThrows(resp)

\* ServerIsUp with the log text compared to the marker, not searched for it
ServerIsUpExact(resp) ==
    /\ ~fetchServerLogsNull(resp)
    /\ resp.success
    /\ resp.logs = StartupMarker

\* checkLogs line 447:
\* result?.success && result.logs.includes('Listening on http://0.0.0.0:8000/')
ServerIsUp(resp) ==
    /\ ~fetchServerLogsNull(resp)
    /\ resp.success
    /\ Includes(resp.logs, StartupMarker)

\* BudgetSpent with `>` for `>=`
BudgetSpentLate(attempts) ==
    attempts > maxAttempts

\* checkLogs lines 451 and 463: `attempts >= maxAttempts`
BudgetSpent(attempts) ==
    attempts >= maxAttempts

\* CheckLogsContinues giving up at the first fetch that shows no marker
CheckLogsAborts(s, k, up) ==
    IF up
    THEN RestartFinally(s, k, "online", TRUE, "restarted and online")
    ELSE RestartFinally(s, k, "idle", FALSE, "failed to detect online status")

\* checkLogs after its fetch attempt (lines 447-470) and, when it returns,
\* the rest of restartServer (lines 597-616)
CheckLogsContinues(s, k, up) ==
    IF up
    THEN RestartFinally(s, k, "online", TRUE, "restarted and online")
    ELSE IF BudgetSpent(task[s][k].attempts)
    THEN RestartFinally(s, k, "idle", FALSE, "failed to detect online status")
    ELSE /\ task' = [task EXCEPT ![s][k].pc = "P_sleep",
                                 ![s][k].http = "none"]
         /\ Silent
         /\ UNCHANGED <<sshOperationInProgress, updatingServerId,
                        restartingServerId, serverRestartStatuses>>

\* getToken() settles in checkLogs: the log request goes out (line 445) or
\* the catch block runs (line 460)
PollToken(s, k) ==
    /\ task[s][k].pc = "P_token"
    /\ \E tokenThrows \in BOOLEAN :
         IF tokenThrows
         THEN CheckLogsContinues(s, k, FALSE)
         ELSE /\ task' = [task EXCEPT ![s][k].pc = "P_fetch",
                                      ![s][k].http = "sent"]
              /\ Silent
              /\ UNCHANGED <<sshOperationInProgress, updatingServerId,
                             restartingServerId, serverRestartStatuses>>
    /\ UNCHANGED <<servers, Backend>>

\* PollFetchFails with the rejected fetch taken for a server that is up
PollFetchFailsReportsUp(s, k) ==
    /\ task[s][k].pc = "P_fetch"
    /\ task[s][k].http = "sent"
    /\ CheckLogsContinues(s, k, TRUE)
    /\ UNCHANGED <<servers, Backend>>

\* fetch() rejects inside fetchServerLogs, which returns null (line 101)
PollFetchFails(s, k) ==
    /\ task[s][k].pc = "P_fetch"
    /\ task[s][k].http = "sent"
    /\ CheckLogsContinues(s, k, FALSE)
    /\ UNCHANGED <<servers, Backend>>

\* the log response arrives
PollResponse(s, k) ==
    /\ task[s][k].pc = "P_fetch"
    /\ task[s][k].http = "done"
    /\ CheckLogsContinues(s, k, ServerIsUp(task[s][k].resp))
    /\ UNCHANGED <<servers, Backend>>

\* the 5 s timer fires: checkLogs is called again (lines 458, 469)
PollWake(s, k) ==
    /\ task[s][k].pc = "P_sleep"
    /\ task' = [task EXCEPT ![s][k].pc = "P_token",
                            ![s][k].resp = NoResp,
                            ![s][k].attempts = task[s][k].attempts + 1]
    /\ Silent
    /\ UNCHANGED <<Frontend, Backend>>

\* the finally block of the Docker Pull handler (line 1100)
PullFinally(s, k) ==
    /\ sshOperationInProgress' = [sshOperationInProgress EXCEPT ![s] = FALSE]
    /\ task' = [task EXCEPT ![s][k] = Idle]
    /\ event' = Ev("pullEnded", s, "pull", Null, 0, FALSE, "none")

\* dockerPullClick with its test of the flag made before a suspension point:
\* whatever the flag has become since, the handler sets it and goes on
dockerPullClickStaleCheck(s) ==
    /\ HasFreeSlot(s)
    /\ sshOperationInProgress' = [sshOperationInProgress EXCEPT ![s] = TRUE]
    /\ task' = [task EXCEPT ![s][FreeSlot(s)] =
         [Idle EXCEPT !.pc = "D_token"]]
    /\ Silent
    /\ UNCHANGED <<updatingServerId, restartingServerId,
                   serverRestartStatuses, servers, External>>

\* the Pull Docker Image handler is invoked: lines 1089-1096
dockerPullClick(s) ==
    /\ IF sshOperationInProgress[s]
       THEN /\ event' = Ev("refused", s, "pull", Null, 0, TRUE,
                           "Please wait for the current operation to complete")
            /\ UNCHANGED <<sshOperationInProgress, task>>
       ELSE /\ HasFreeSlot(s)
            /\ sshOperationInProgress' =
                 [sshOperationInProgress EXCEPT ![s] = TRUE]
            /\ task' = [task EXCEPT ![s][FreeSlot(s)] =
                 [Idle EXCEPT !.pc = "D_token"]]
            /\ Silent
    /\ UNCHANGED <<updatingServerId, restartingServerId,
                   serverRestartStatuses, servers, External>>

\* getToken() settles in dockerPull (lines 344-367): the request goes out,
\* or dockerPull catches and returns null and the 1 s timer starts
PullToken(s, k) ==
    /\ task[s][k].pc = "D_token"
    /\ \E tokenThrows \in BOOLEAN :
         task' = [task EXCEPT
                    ![s][k].pc = IF tokenThrows THEN "D_settle" ELSE "D_fetch",
                    ![s][k].http = IF tokenThrows THEN "none" ELSE "sent"]
    /\ Silent
    /\ UNCHANGED <<Frontend, Backend>>

\* dockerPull's fetch rejects or is answered; either way the timer starts
PullResponse(s, k) ==
    /\ task[s][k].pc = "D_fetch"
    /\ task[s][k].http \in {"sent", "done"}
    /\ task' = [task EXCEPT ![s][k].pc = "D_settle", ![s][k].http = "none",
                            ![s][k].resp = NoResp]
    /\ Silent
    /\ UNCHANGED <<Frontend, Backend>>

\* the 1 s timer fires: `await refetchServerVersions()` (line 1098) runs the
\* resource fetcher to its `await getToken()` (line 190)
PullSettled(s, k) ==
    /\ task[s][k].pc = "D_settle"
    /\ task' = [task EXCEPT ![s][k].pc = "V_token"]
    /\ Silent
    /\ UNCHANGED <<Frontend, Backend>>

\* getToken() settles in the versions fetcher: fetchServerVersions sends
\* its request (line 334), or the refetch fails and the finally block runs
VersionsToken(s, k) ==
    /\ task[s][k].pc = "V_token"
    /\ \E tokenThrows \in BOOLEAN :
         IF tokenThrows
         THEN PullFinally(s, k)
         ELSE /\ task' = [task EXCEPT ![s][k].pc = "V_fetch",
                                      ![s][k].http = "sent"]
              /\ Silent
              /\ UNCHANGED <<sshOperationInProgress>>
    /\ UNCHANGED <<updatingServerId, restartingServerId,
                   serverRestartStatuses, servers, Backend>>

\* fetchServerVersions returns (its fetch rejected or was answered) and the
\* handler's finally block runs
VersionsResponse(s, k) ==
    /\ task[s][k].pc = "V_fetch"
    /\ task[s][k].http \in {"sent", "done"}
    /\ PullFinally(s, k)
    /\ UNCHANGED <<updatingServerId, restartingServerId,
                   serverRestartStatuses, servers, Backend>>

\* the signals of the guarded operations and the cached inventory
Signals ==
    <<sshOperationInProgress, updatingServerId, restartingServerId,
      serverRestartStatuses, servers>>

\* a handler that holds no flag has run to its end
Ended(s, k, type, op, ok, alert) ==
    /\ task' = [task EXCEPT ![s][k] = Idle]
    /\ event' = Ev(type, s, op, task[s][k].id, 0, ok, alert)

\* the handler's request goes out
Sends(s, k, pc) ==
    /\ task' = [task EXCEPT ![s][k].pc = pc, ![s][k].http = "sent"]
    /\ Silent

\* openLogsModal with the guard of restartServer in front of it
openLogsModalGuarded(s, serverId) ==
    /\ ~sshOperationInProgress[s]
    /\ HasFreeSlot(s)
    /\ sshOperationInProgress' = [sshOperationInProgress EXCEPT ![s] = TRUE]
    /\ task' = [task EXCEPT ![s][FreeSlot(s)] =
         [Idle EXCEPT !.pc = "L_token", !.id = serverId]]
    /\ event' = Ev("logsOpened", s, "logs", serverId, 0, FALSE, "none")
    /\ UNCHANGED <<updatingServerId, restartingServerId,
                   serverRestartStatuses, servers, External>>

\* View Logs is clicked: openLogsModal opens the modal and awaits getToken()
\* (lines 281-285)
openLogsModal(s, serverId) ==
    /\ HasFreeSlot(s)
    /\ task' = [task EXCEPT ![s][FreeSlot(s)] =
         [Idle EXCEPT !.pc = "L_token", !.id = serverId]]
    /\ event' = Ev("logsOpened", s, "logs", serverId, 0, FALSE, "none")
    /\ UNCHANGED <<Signals, External>>

\* getToken() settles in openLogsModal: fetchServerLogs sends its request,
\* or the handler rejects with the modal left loading
LogsModalToken(s, k) ==
    /\ task[s][k].pc = "L_token"
    /\ \E tokenThrows \in BOOLEAN :
         IF tokenThrows
         THEN /\ task' = [task EXCEPT ![s][k] = Idle]
              /\ Silent
         ELSE Sends(s, k, "L_fetch")
    /\ UNCHANGED <<Frontend, External>>

\* fetch() rejects inside fetchServerLogs: it returns null (line 101)
LogsModalFetchFails(s, k) ==
    /\ task[s][k].pc = "L_fetch"
    /\ task[s][k].http = "sent"
    /\ Ended(s, k, "logsShown", "logs", FALSE, "Failed to fetch logs")
    /\ UNCHANGED <<Frontend, External>>

\* the log response arrives and the modal shows the logs or an error
\* (lines 287-293)
LogsModalResponse(s, k) ==
    /\ task[s][k].pc = "L_fetch"
    /\ task[s][k].http = "done"
    /\ IF fetchServerLogsNull(task[s][k].resp)
       THEN Ended(s, k, "logsShown", "logs", FALSE, "Failed to fetch logs")
       ELSE IF task[s][k].resp.success
       THEN Ended(s, k, "logsShown", "logs", TRUE, "none")
       ELSE Ended(s, k, "logsShown", "logs", FALSE, "Error")
    /\ UNCHANGED <<Frontend, External>>

\* the statuses resource is refetched, by the 60 s timer (line 257) or after
\* a restart (line 601), and its fetcher awaits getToken() (line 182); the
\* handler stands for one of the fetchServerStatus calls it then makes
refetchStatuses(s, serverId) ==
    /\ HasFreeSlot(s)
    /\ task' = [task EXCEPT ![s][FreeSlot(s)] =
         [Idle EXCEPT !.pc = "S_token", !.id = serverId]]
    /\ Silent
    /\ UNCHANGED <<Signals, External>>

\* getToken() settles in the statuses fetcher: fetchServerStatus sends its
\* request (line 148), or the refetch fails
StatusToken(s, k) ==
    /\ task[s][k].pc = "S_token"
    /\ \E tokenThrows \in BOOLEAN :
         IF tokenThrows
         THEN /\ task' = [task EXCEPT ![s][k] = Idle]
              /\ Silent
         ELSE Sends(s, k, "S_fetch")
    /\ UNCHANGED <<Frontend, External>>

\* fetch() rejects inside fetchServerStatus: it returns null (line 153)
StatusFetchFails(s, k) ==
    /\ task[s][k].pc = "S_fetch"
    /\ task[s][k].http = "sent"
    /\ Ended(s, k, "statusRead", "status", FALSE, "none")
    /\ UNCHANGED <<Frontend, External>>

\* fetchServerStatus (lines 149-150): null unless the response is ok
fetchServerStatusNull(resp) ==
    \/ resp.status < 200
    \/ resp.status > 299
    \/ JsonThrows(resp)

\* the status response arrives: the card shows Online when the stored
\* result has running: true (lines 751-752)
StatusResponse(s, k) ==
    /\ task[s][k].pc = "S_fetch"
    /\ task[s][k].http = "done"
    /\ Ended(s, k, "statusRead", "status",
             ~fetchServerStatusNull(task[s][k].resp)
                 /\ task[s][k].resp.running,
             "none")
    /\ UNCHANGED <<Frontend, External>>

\* Backup is clicked: backupServer runs to its `await getToken()`
\* (lines 620-624)
backupServer(s, ServerId) ==
    /\ HasFreeSlot(s)
    /\ task' = [task EXCEPT ![s][FreeSlot(s)] =
         [Idle EXCEPT !.pc = "B_token", !.id = ServerId]]
    /\ Silent
    /\ UNCHANGED <<Signals, External>>

\* getToken() settles in backupServer: the request goes out (line 630) or
\* the catch and finally blocks run
BackupToken(s, k) ==
    /\ task[s][k].pc = "B_token"
    /\ \E tokenThrows \in BOOLEAN :
         IF tokenThrows
         THEN Ended(s, k, "backupEnded", "backup", FALSE,
                    "Error backing up server")
         ELSE Sends(s, k, "B_fetch")
    /\ UNCHANGED <<Frontend, External>>

\* fetch() rejects before the request reached the backend: catch, finally
BackupFetchFails(s, k) ==
    /\ task[s][k].pc = "B_fetch"
    /\ task[s][k].http = "sent"
    /\ Ended(s, k, "backupEnded", "backup", FALSE, "Error backing up server")
    /\ UNCHANGED <<Frontend, External>>

\* the backup response arrives: lines 634-645
BackupResponse(s, k) ==
    /\ task[s][k].pc = "B_fetch"
    /\ task[s][k].http = "done"
    /\ IF JsonThrows(task[s][k].resp)
       THEN Ended(s, k, "backupEnded", "backup", FALSE,
                  "Error backing up server")
       ELSE IF task[s][k].resp.success
       THEN Ended(s, k, "backupEnded", "backup", TRUE,
                  "Backup created successfully")
       ELSE Ended(s, k, "backupEnded", "backup", FALSE, "Failed to backup")
    /\ UNCHANGED <<Frontend, External>>

----------------------------------------------------------------------------
(* The system                                                              *)

\* a button is clicked, while the behaviour's budget of clicks lasts
Clicked(budget) ==
    /\ started < budget
    /\ started' = started + 1

\* one step of the sessions SS against the backend, on the instances Ids
Step(SS, Ids, budget) ==
    \/ \E s \in SS, id \in Ids, v \in Versions :
           Clicked(budget) /\ updateServerVersion(s, id, v)
    \/ \E s \in SS, id \in Ids : Clicked(budget) /\ restartServer(s, id)
    \/ \E s \in SS : Clicked(budget) /\ dockerPullClick(s)
    \/ \E s \in SS, k \in Slots :
           \/ UpdateToken(s, k)
           \/ UpdateFetchFails(s, k)
           \/ UpdateResponse(s, k)
           \/ UpdateSettled(s, k)
           \/ RestartToken(s, k)
           \/ RestartFetchFails(s, k)
           \/ RestartResponse(s, k)
           \/ PollToken(s, k)
           \/ PollFetchFails(s, k)
           \/ PollResponse(s, k)
           \/ PollWake(s, k)
           \/ PullToken(s, k)
           \/ PullResponse(s, k)
           \/ PullSettled(s, k)
           \/ VersionsToken(s, k)
           \/ VersionsResponse(s, k)
           \/ RestartRoute(s, k)
           \/ UpdateRoute(s, k)
           \/ LogsRoute(s, k)
           \/ VersionsRoute(s, k)
           \/ NoPullRoute(s, k)
           \/ ExecuteCommandReturns(s, k)
    \/ \E id \in Removable : InventoryRemoves(id)

\* a step of a handler that holds no flag, or of the route serving it
SideHandlerStep(s, k) ==
    \/ LogsModalToken(s, k)
    \/ LogsModalFetchFails(s, k)
    \/ LogsModalResponse(s, k)
    \/ StatusToken(s, k)
    \/ StatusFetchFails(s, k)
    \/ StatusResponse(s, k)
    \/ StatusRoute(s, k)
    \/ BackupToken(s, k)
    \/ BackupFetchFails(s, k)
    \/ BackupResponse(s, k)
    \/ BackupRoute(s, k)
    \/ BackupScriptReturns(s, k)

\* one step of what the sessions SS do outside the guarded operations
SideStep(SS, Ids, budget) ==
    \/ \E s \in SS, id \in Ids : Clicked(budget) /\ openLogsModal(s, id)
    \/ \E s \in SS, id \in Ids : Clicked(budget) /\ refetchStatuses(s, id)
    \/ \E s \in SS, id \in Ids : Clicked(budget) /\ backupServer(s, id)
    \/ \E s \in SS, k \in Slots : SideHandlerStep(s, k)
    \/ \E id \in Stoppable : InstanceStops(id)

\* one dashboard session and the backend
Next ==
    Step({"s1"}, ServerIds, MaxStarted)

Spec ==
    Init /\ [][Next]_vars

\* a suspended handler is resumed, or the backend works on its request
HandlerStep(s, k) ==
    \/ UpdateToken(s, k)
    \/ UpdateFetchFails(s, k)
    \/ UpdateResponse(s, k)
    \/ UpdateSettled(s, k)
    \/ RestartToken(s, k)
    \/ RestartFetchFails(s, k)
    \/ RestartResponse(s, k)
    \/ PollToken(s, k)
    \/ PollFetchFails(s, k)
    \/ PollResponse(s, k)
    \/ PollWake(s, k)
    \/ PullToken(s, k)
    \/ PullResponse(s, k)
    \/ PullSettled(s, k)
    \/ VersionsToken(s, k)
    \/ VersionsResponse(s, k)
    \/ RestartRoute(s, k)
    \/ UpdateRoute(s, k)
    \/ LogsRoute(s, k)
    \/ VersionsRoute(s, k)
    \/ NoPullRoute(s, k)
    \/ ExecuteCommandReturns(s, k)

\* the event loop resumes every handler whose promise or timer is settled,
\* the backend answers every request, and every ssh process ends
SpecLive ==
    Spec /\ \A k \in Slots : WF_vars(HandlerStep("s1", k))

\* one dashboard session with its log views, status refreshes and backups
\* running next to a guarded operation: the first click of a behaviour may
\* start an update, a restart or a pull, every click a view or a backup
NextViews ==
    \/ Step({"s1"}, ServerIds, 1)
    \/ SideStep({"s1"}, ServerIds, MaxViewStarted)

SpecViews ==
    Init /\ [][NextViews]_vars

\* two dashboard sessions and the backend they share
NextFleet ==
    Step(Sessions, {ghana}, MaxFleetStarted)

SpecFleet ==
    Init /\ [][NextFleet]_vars

----------------------------------------------------------------------------
(* The Authorizer on its own: isCommandAllowed applied to rendered strings *)

\* longest text appended after the `;` of an injected command
MaxSuffixLen ==
    3

\* the characters of the appended text
SuffixChars ==
    {" ", "r", "m", "-", "/"}

SuffixTexts ==
    UNION {[1..n -> SuffixChars] : n \in 0..MaxSuffixLen}

\* `wb c update <id>` commands: bare, with the version option, and each
\* with the trailing blank that rule 7 asks for
UpdateCommands ==
    UNION {{<<"w","b"," ","c"," ","u","p","d","a","t","e"," ">> \o id,
            <<"w","b"," ","c"," ","u","p","d","a","t","e"," ">> \o id
                \o <<" ">>,
            updateCommand(id, v),
            updateCommand(id, v) \o <<" ">>} :
           <<id, v>> \in ServerIds \X Versions}

\* a command followed by `;` and more text
InjectedCommands ==
    {c \o <<";">> \o t : c \in UpdateCommands, t \in SuffixTexts}

\* `wb c update ghana; rm -rf /`
RmRfInjection ==
    <<"w","b"," ","c"," ","u","p","d","a","t","e"," ","g","h","a","n","a",
      ";"," ","r","m"," ","-","r","f"," ","/">>

\* the characters with which a shell ends, joins or substitutes a command
\* (the backquote, which no rule treats differently from $, is not among
\* the characters of the modelled text)
ShellCharacters ==
    {";", "|", "&", "$", "\n"}

\* texts of one or two characters around those characters
ShellTexts ==
    UNION {[1..n -> ShellCharacters \cup {"x"}] : n \in 1..2}

\* `docker ps --format <text>`, the strings rule 30 is written for
FormatCommands ==
    {<<"d","o","c","k","e","r"," ","p","s"," ","-","-","f","o","r","m","a","t",
       " ">> \o t : t \in ShellTexts}

\* `wb c update <id> --label "<text>" `, the label option of rule 7
LabelCommands ==
    {<<"w","b"," ","c"," ","u","p","d","a","t","e"," ">> \o id
        \o <<" ","-","-","l","a","b","e","l"," ","\"">> \o t \o <<"\""," ">> :
     id \in ServerIds, t \in ShellTexts}

AuthInputs ==
    UpdateCommands \cup InjectedCommands \cup {RmRfInjection}
        \cup {restartCommand(id) : id \in ServerIds}
        \cup FormatCommands \cup LabelCommands

InitAuth ==
    /\ sshOperationInProgress = [s \in Sessions |-> FALSE]
    /\ updatingServerId = [s \in Sessions |-> Null]
    /\ restartingServerId = [s \in Sessions |-> Null]
    /\ serverRestartStatuses = [s \in Sessions |-> <<>>]
    /\ servers = [s \in Sessions |-> [id \in ServerIds |-> InitialVersion]]
    /\ task = [s \in Sessions |-> [k \in Slots |-> Idle]]
    /\ inventory = ServerIds
    /\ event = NoEvent
    /\ started = 0
    /\ authInput \in AuthInputs
    /\ authResult = "unasked"
    /\ runningInstances = ServerIds
    /\ catalogInput = <<>>
    /\ catalogOutput = NoCatalog
    /\ downloadRequest = NoRequest
    /\ downloadAnswer = NoAnswer

\* a caller asks the Authorizer about the string
Authorize ==
    /\ authResult = "unasked"
    /\ authResult' = IF isCommandAllowed(authInput) THEN "allowed"
                                                    ELSE "rejected"
    /\ UNCHANGED <<Frontend, task, inventory, event, authInput,
                   runningInstances, catalogInput, catalogOutput,
                   downloadRequest, downloadAnswer>>

NextAuth ==
    Authorize

SpecAuth ==
    InitAuth /\ [][NextAuth]_vars

----------------------------------------------------------------------------
(* GET /api/versions: from the output of `docker images` to the list sent  *)

\* the values the comparator of the route works with
Num(n) ==
    [kind |-> "number", val |-> n]

NaN ==
    [kind |-> "NaN", val |-> 0]

Undefined ==
    [kind |-> "undefined", val |-> 0]

DigitChars ==
    <<"0","1","2","3","4","5","6","7","8","9">>

DigitValue(c) ==
    (CHOOSE i \in 1..Len(DigitChars) : DigitChars[i] = c) - 1

AllDigits(str) ==
    \A i \in 1..Len(str) : str[i] \in Digits

\* the number a string of decimal digits denotes
RECURSIVE DecimalValue(_)
DecimalValue(str) ==
    IF str = <<>>
    THEN 0
    ELSE 10 * DecimalValue(SubSeq(str, 1, Len(str) - 1))
            + DigitValue(str[Len(str)])

\* parseInt(str) for a string without blanks or sign: the leading digits
parseInt(str) ==
    LET n == CHOOSE n \in 0..Len(str) :
                 /\ AllDigits(SubSeq(str, 1, n))
                 /\ n < Len(str) => str[n + 1] \notin Digits
    IN  IF n = 0 THEN NaN ELSE Num(DecimalValue(SubSeq(str, 1, n)))

\* Number(str) for a string without blanks, sign or exponent
Number(str) ==
    IF AllDigits(str) THEN Num(DecimalValue(str)) ELSE NaN

\* str.split(sep) for a separator of one character
RECURSIVE Split(_, _)
Split(str, sep) ==
    IF \A i \in 1..Len(str) : str[i] # sep
    THEN <<str>>
    ELSE LET i == CHOOSE i \in 1..Len(str) :
                      /\ str[i] = sep
                      /\ \A j \in 1..(i - 1) : str[j] # sep
         IN  <<SubSeq(str, 1, i - 1)>>
                 \o Split(SubSeq(str, i + 1, Len(str)), sep)

\* str.startsWith(prefix)
StartsWith(str, prefix) ==
    /\ Len(prefix) <= Len(str)
    /\ SubSeq(str, 1, Len(prefix)) = prefix

\* 'wb-fastr-server-v'
TagPrefix ==
    <<"w","b","-","f","a","s","t","r","-","s","e","r","v","e","r","-","v">>

IsServerTag(tag) ==
    StartsWith(tag, TagPrefix)

\* lines 201-204: the lines that start with the prefix, without the prefix
\* (replace() removes its first occurrence, which is the one at the start)
tags(stdout) ==
    LET lines == SelectSeq(Split(stdout, "\n"), IsServerTag)
    IN  [i \in 1..Len(lines) |->
           SubSeq(lines[i], Len(TagPrefix) + 1, Len(lines[i]))]

\* lines 207-216: the greatest parseInt(parts[1]) over the tags, from -1
RECURSIVE HighestMinorFrom(_, _, _)
HighestMinorFrom(versions, i, highestMinor) ==
    IF i > Len(versions)
    THEN highestMinor
    ELSE LET parts == Split(versions[i], ".")
             minor == IF Len(parts) >= 2 THEN parseInt(parts[2]) ELSE NaN
         IN  HighestMinorFrom(versions, i + 1,
                 IF minor.kind = "number" /\ minor.val > highestMinor
                 THEN minor.val
                 ELSE highestMinor)

\* a.split('.').map(Number)
NumberParts(version) ==
    LET parts == Split(version, ".")
    IN  [i \in 1..Len(parts) |-> Number(parts[i])]

\* parts[i] of a JavaScript array: undefined past its end
At(parts, i) ==
    IF i < Len(parts) THEN parts[i + 1] ELSE Undefined

\* x !== y
StrictlyUnequal(x, y) ==
    x.kind = "NaN" \/ y.kind = "NaN" \/ x # y

\* x - y
Minus(x, y) ==
    IF x.kind = "number" /\ y.kind = "number"
    THEN Num(x.val - y.val)
    ELSE NaN

\* the loop of lines 222-226 over the components i, i+1, .. 2 of two versions
RECURSIVE CompareParts(_, _, _)
CompareParts(xParts, yParts, i) ==
    IF i >= 3
    THEN Num(0)
    ELSE IF StrictlyUnequal(At(xParts, i), At(yParts, i))
    THEN Minus(At(xParts, i), At(yParts, i))
    ELSE CompareParts(xParts, yParts, i + 1)

\* versionCompare returning aParts[i] - bParts[i]
versionCompareOldestFirst(a, b) ==
    CompareParts(NumberParts(a), NumberParts(b), 0)

\* the comparator of lines 217-229: bParts[i] - aParts[i] at the first
\* component that differs
versionCompare(a, b) ==
    CompareParts(NumberParts(b), NumberParts(a), 0)

\* Array.prototype.sort calls the comparator and reads NaN as 0
SortCompare(x, y) ==
    LET v == versionCompare(x, y)
    IN  IF v.kind = "number" THEN v.val ELSE 0

Reverse(seq) ==
    [i \in 1..Len(seq) |-> seq[Len(seq) + 1 - i]]

\* the engine's sort of a short array, first part: the run the array starts
\* with ends before the first element that breaks its direction
RECURSIVE RunEnd(_, _, _)
RunEnd(a, descending, idx) ==
    IF idx > Len(a)
    THEN idx - 1
    ELSE LET order == SortCompare(a[idx], a[idx - 1])
         IN  IF (descending /\ order >= 0) \/ (~descending /\ order < 0)
             THEN idx - 1
             ELSE RunEnd(a, descending, idx + 1)

\* second part: where binary search puts the pivot among a[left..right-1]
RECURSIVE InsertionPoint(_, _, _, _)
InsertionPoint(a, pivot, left, right) ==
    IF left >= right
    THEN left
    ELSE LET mid == left + ((right - left) \div 2)
         IN  IF SortCompare(pivot, a[mid]) < 0
             THEN InsertionPoint(a, pivot, left, mid)
             ELSE InsertionPoint(a, pivot, mid + 1, right)

\* a[start], a[start+1], .. are inserted one by one into the sorted front
RECURSIVE BinaryInsertionSort(_, _)
BinaryInsertionSort(a, start) ==
    IF start > Len(a)
    THEN a
    ELSE LET at == InsertionPoint(a, a[start], 1, start)
         IN  BinaryInsertionSort(
                 SubSeq(a, 1, at - 1) \o <<a[start]>>
                     \o SubSeq(a, at, start - 1)
                     \o SubSeq(a, start + 1, Len(a)),
                 start + 1)

\* tags.sort(versionCompare) as the engine sorts an array of fewer than 64
\* elements: the starting run, reversed when descending, then insertion
ArraySort(a) ==
    IF Len(a) < 2
    THEN a
    ELSE LET descending == SortCompare(a[2], a[1]) < 0
             run == RunEnd(a, descending, 3)
             made == IF descending
                     THEN Reverse(SubSeq(a, 1, run))
                              \o SubSeq(a, run + 1, Len(a))
                     ELSE a
         IN  BinaryInsertionSort(made, run + 1)

\* lines 219-230: the tags of the highest minor version, sorted
filteredTags(stdout) ==
    LET highestMinor == HighestMinorFrom(tags(stdout), 1, -1)
        Kept(version) ==
            LET parts == Split(version, ".")
            IN  /\ Len(parts) >= 2
                /\ parseInt(parts[2]) = Num(highestMinor)
    IN  ArraySort(SelectSeq(tags(stdout), Kept))

\* most lines in one output of `docker images`
MaxTags ==
    3

\* the lines `docker images --format "{{.Tag}}"` can print
TagLines ==
    {TagPrefix \o v : v \in {<<"1",".","6",".","1","1">>,
                             <<"1",".","6",".","1","2">>,
                             <<"1",".","6",".","2">>,
                             <<"1",".","6">>,
                             <<"2",".","6",".","0">>,
                             <<"2",".","5",".","1">>,
                             <<"1",".","5",".","9">>}}
        \cup {<<"l","a","t","e","s","t">>}

\* every line of the output ends with a newline
RECURSIVE Lines(_)
Lines(seq) ==
    IF seq = <<>>
    THEN <<>>
    ELSE Head(seq) \o <<"\n">> \o Lines(Tail(seq))

CatalogInputs ==
    {Lines(seq) : seq \in UNION {[1..n -> TagLines] : n \in 0..MaxTags}}

InitCatalog ==
    /\ sshOperationInProgress = [s \in Sessions |-> FALSE]
    /\ updatingServerId = [s \in Sessions |-> Null]
    /\ restartingServerId = [s \in Sessions |-> Null]
    /\ serverRestartStatuses = [s \in Sessions |-> <<>>]
    /\ servers = [s \in Sessions |-> [id \in ServerIds |-> InitialVersion]]
    /\ task = [s \in Sessions |-> [k \in Slots |-> Idle]]
    /\ inventory = ServerIds
    /\ event = NoEvent
    /\ started = 0
    /\ authInput = <<>>
    /\ authResult = "unasked"
    /\ runningInstances = ServerIds
    /\ catalogInput \in CatalogInputs
    /\ catalogOutput = NoCatalog
    /\ downloadRequest = NoRequest
    /\ downloadAnswer = NoAnswer

\* the route turns the output of a successful `docker images` into its answer
ListVersions ==
    /\ ~catalogOutput.asked
    /\ catalogOutput' = [asked |-> TRUE,
                         versions |-> filteredTags(catalogInput)]
    /\ UNCHANGED <<Frontend, task, inventory, event, authInput, authResult,
                   runningInstances, catalogInput,
                   downloadRequest, downloadAnswer>>

NextCatalog ==
    ListVersions

SpecCatalog ==
    InitCatalog /\ [][NextCatalog]_vars

----------------------------------------------------------------------------
(* server.ts: the backup download routes                                   *)

\* /mnt/fastr-backups
BackupBase ==
    <<"/","m","n","t","/","f","a","s","t","r","-","b","a","c","k","u","p","s">>

\* the directory names of BackupBase
BackupBaseNames ==
    << <<"m","n","t">>, <<"f","a","s","t","r","-","b","a","c","k","u","p","s">> >>

\* the two routes: download-all has no file parameter
DownloadRoutes ==
    {"download-all", "file"}

\* the test in front of each route (lines 557 and 612)
InvalidPath(req) ==
    \/ Includes(req.folder, <<".",".">>)
    \/ Includes(req.folder, <<"/">>)
    \/ /\ req.route = "file"
       /\ \/ Includes(req.file, <<".",".">>)
          \/ Includes(req.file, <<"/">>)

\* backupPath (line 561) and filePath (line 616)
backupPath(req) ==
    BackupBase \o <<"/">> \o req.id \o <<"/">> \o req.folder
        \o (IF req.route = "file" THEN <<"/">> \o req.file ELSE <<>>)

\* the names an absolute path leads through once the system has followed
\* its empty, `.` and `..` components, from component i on
RECURSIVE Follow(_, _, _)
Follow(names, i, at) ==
    IF i > Len(names)
    THEN at
    ELSE IF names[i] \in {<<>>, <<".">>}
    THEN Follow(names, i + 1, at)
    ELSE IF names[i] = <<".",".">>
    THEN Follow(names, i + 1,
                IF at = <<>> THEN at ELSE SubSeq(at, 1, Len(at) - 1))
    ELSE Follow(names, i + 1, Append(at, names[i]))

\* the file or directory that Deno.stat, Deno.readFile and `tar -C` are
\* handed when given path
Resolve(path) ==
    Follow(Split(path, "/"), 1, <<>>)

\* is the resolved location inside /mnt/fastr-backups?
InsideBase(names) ==
    /\ Len(names) >= Len(BackupBaseNames)
    /\ SubSeq(names, 1, Len(BackupBaseNames)) = BackupBaseNames

\* what the file system holds at the path
FileKinds ==
    {"missing", "directory", "file"}

\* the answer of a route that got as far as Deno.stat (lines 563-598 and
\* 618-650): the status it sends
StatStatus(route, kind) ==
    CASE kind = "missing" -> 500
      [] kind = "directory" -> IF route = "file" THEN 404 ELSE 200
      [] kind = "file" -> IF route = "file" THEN 200 ELSE 404

\* values a path parameter can have after the router has decoded it
ParamTexts ==
    {ghana, <<"b">>, <<".">>, <<".",".">>, <<".",".","/",".",".">>}

DownloadRequests ==
    {[route |-> r, id |-> id, folder |-> folder,
      file |-> IF r = "file" THEN file ELSE <<>>] :
        r \in DownloadRoutes, id \in ParamTexts, folder \in ParamTexts,
        file \in ParamTexts}

InitDownload ==
    /\ sshOperationInProgress = [s \in Sessions |-> FALSE]
    /\ updatingServerId = [s \in Sessions |-> Null]
    /\ restartingServerId = [s \in Sessions |-> Null]
    /\ serverRestartStatuses = [s \in Sessions |-> <<>>]
    /\ servers = [s \in Sessions |-> [id \in ServerIds |-> InitialVersion]]
    /\ task = [s \in Sessions |-> [k \in Slots |-> Idle]]
    /\ inventory = ServerIds
    /\ event = NoEvent
    /\ started = 0
    /\ authInput = <<>>
    /\ authResult = "unasked"
    /\ runningInstances = ServerIds
    /\ catalogInput = <<>>
    /\ catalogOutput = NoCatalog
    /\ downloadRequest \in DownloadRequests
    /\ downloadAnswer = NoAnswer

\* a download route handles the request: requireAdmin, the path test, then
\* Deno.stat and the read of the resolved path
Download ==
    /\ ~downloadAnswer.asked
    /\ \E outcome \in AuthOutcomes : \E kind \in FileKinds :
         downloadAnswer' =
           IF requireAdmin(outcome) # 0
           THEN [NoAnswer EXCEPT !.asked = TRUE,
                                 !.status = requireAdmin(outcome),
                                 !.error = "not admitted"]
           ELSE IF InvalidPath(downloadRequest)
           THEN [NoAnswer EXCEPT !.asked = TRUE, !.status = 400,
                                 !.error = "Invalid path"]
           ELSE [asked |-> TRUE,
                 status |-> StatStatus(downloadRequest.route, kind),
                 error |-> "none",
                 accessed |-> TRUE,
                 path |-> Resolve(backupPath(downloadRequest))]
    /\ UNCHANGED <<Frontend, task, inventory, event, authInput, authResult,
                   runningInstances, catalogInput, catalogOutput,
                   downloadRequest>>

NextDownload ==
    Download

SpecDownload ==
    InitDownload /\ [][NextDownload]_vars

----------------------------------------------------------------------------
(* App.tsx: the disabled attribute of the Update and Restart buttons       *)

\* a JavaScript boolean
Boolean(b) ==
    [kind |-> "boolean", value |-> b]

\* the accessor of a signal, a function object
Accessor ==
    [kind |-> "function", value |-> FALSE]

\* ToBoolean: an object is truthy, a boolean is its value
ToBoolean(v) ==
    IF v.kind = "function" THEN TRUE ELSE v.value

\* x || y
Or(x, y) ==
    IF ToBoolean(x) THEN x ELSE y

\* line 785:
\* disabled={updatingServerId() === server.id || sshOperationInProgress()}
updateDisabled(s, serverId) ==
    ToBoolean(Or(Boolean(updatingServerId[s] = serverId),
                 Boolean(sshOperationInProgress[s])))

\* line 840:
\* disabled={restartingServerId() === server.id || sshOperationInProgress}
restartDisabled(s, serverId) ==
    ToBoolean(Or(Boolean(restartingServerId[s] = serverId), Accessor))

----------------------------------------------------------------------------
(* Claims                                                                  *)

\* the update and restart commands ssh is running right now
RunningOperations ==
    {r \in Running :
        RouteOf(task[r[1]][r[2]].pc) \in {"update", "restart"}}

\* C1: at any moment at most one update or restart command is being
\* executed on the droplet, whatever sessions the calls come from; a call
\* made while another is in flight executes no remote command.
C1_OneOperationAtATime ==
    Cardinality(RunningOperations) <= 1

\* C2: every command string that executeCommand is running was accepted by
\* isCommandAllowed; a string matching no allow-list pattern is never
\* dispatched.
C2_DispatchedCommandsAllowed ==
    \A r \in Running : isCommandAllowed(task[r[1]][r[2]].command)

\* C3: when an update whose command succeeded has finished, the cached
\* version of the instance is the requested one and exactly one restart
\* sequence was run for it inside the update.
C3_UpdateThenOneRestart ==
    (event.type = "updateEnded" /\ event.ok)
        => /\ servers[event.sess][event.id] \in Versions
           /\ event.n = 1

\* C4: the Authorizer rejects `wb c update ghana; rm -rf /` and every string
\* made by appending `;` and more text to a `wb c update <id>` command.
C4_InjectionRejected ==
    (authResult # "unasked"
        /\ authInput \in InjectedCommands \cup {RmRfInjection})
        => authResult = "rejected"

C4_RmRfRejected ==
    authInput = RmRfInjection /\ authResult = "rejected"

\* C5: once a session's flag is held it is released again, on every path,
\* and whenever no handler of the session is running the flag is free.
C5_SlotReleased ==
    /\ \A s \in Sessions :
         sshOperationInProgress[s] ~> ~sshOperationInProgress[s]
    /\ [](\A s \in Sessions :
            (\A k \in Slots : task[s][k].pc = "idle")
                => ~sshOperationInProgress[s])

C5_ReleasedAfterThrow ==
    /\ event.type = "restartEnded"
    /\ event.alert = "Error restarting server"
    /\ ~sshOperationInProgress[event.sess]

\* the positions of a handler inside restartServer
RestartPcs ==
    {"R_token", "R_fetch", "P_token", "P_fetch", "P_sleep"}

\* C6: an instance is `pending` only while the restart that set it is
\* running and holds the flag; with the flag free nothing is `pending`.
C6_PendingOnlyWhileActive ==
    \A s \in Sessions : \A id \in ServerIds :
        StatusOf(s, id) = "pending"
            => /\ sshOperationInProgress[s]
               /\ \E k \in Slots : /\ task[s][k].pc \in RestartPcs
                                   /\ task[s][k].id = id

C6_ResolvedAfterError ==
    /\ event.type = "restartEnded"
    /\ event.alert = "Failed to restart server"
    /\ StatusOf(event.sess, event.id) = "idle"
    /\ ~sshOperationInProgress[event.sess]

\* C7: an update or restart request made while the flag is held is refused
\* with a Busy indication to the caller.
C7_RefusalShowsBusy ==
    (event.type = "refused" /\ event.op \in {"update", "restart"})
        => event.ok

\* C8: a poll that never sees the marker returns false after exactly
\* maxAttempts attempts, and the restart then leaves the instance `idle`.
C8_ExhaustedAfterMaxAttempts ==
    (event.type = "restartEnded" /\ event.n >= 1 /\ ~event.ok)
        => /\ event.n = maxAttempts
           /\ StatusOf(event.sess, event.id) = "idle"

C8_PollTimedOut ==
    /\ event.type = "restartEnded"
    /\ event.n = maxAttempts
    /\ ~event.ok
    /\ event.alert = "failed to detect online status"
    /\ StatusOf(event.sess, event.id) = "idle"

\* the response carries success = true and a log with the startup marker
MarkerInLogs(resp) ==
    /\ resp.status = 200
    /\ resp.json
    /\ resp.success
    /\ Includes(resp.logs, StartupMarker)

\* C9: when the first log fetch of a poll brings the marker, the step that
\* receives it ends the poll with true after one attempt and no wait, and
\* sets the instance `online`.
C9_FirstFetchMarker ==
    [][\A s \in Sessions : \A k \in Slots :
         (/\ task[s][k].pc = "P_fetch"
          /\ task[s][k].http = "done"
          /\ task[s][k].attempts = 1
          /\ MarkerInLogs(task[s][k].resp)
          /\ task'[s][k] # task[s][k])
            => /\ task'[s][k].pc = "idle"
               /\ event' = Ev("restartEnded", s, "restart", task[s][k].id, 1,
                              TRUE, "restarted and online")
               /\ serverRestartStatuses'[s][task[s][k].id] = "online"]_vars

C9_OnlineAfterOneAttempt ==
    /\ event.type = "restartEnded"
    /\ event.ok
    /\ event.n = 1
    /\ StatusOf(event.sess, event.id) = "online"

\* the fetch attempt of a checkLogs call has failed: the token or the
\* request threw, or the response is not a successful one
FetchFailed(t) ==
    \/ t.pc = "P_token"
    \/ t.pc = "P_fetch" /\ t.http = "sent"
    \/ /\ t.pc = "P_fetch"
       /\ t.http = "done"
       /\ ~(t.resp.status = 200 /\ t.resp.json /\ t.resp.success)

\* C10: a failed log fetch never ends the poll while budget is left: the
\* poll sleeps and the next call uses up exactly one more attempt; the poll
\* ends only with the marker found or with the budget spent.
C10_FailedFetchKeepsPolling ==
    [][\A s \in Sessions : \A k \in Slots :
         LET t == task[s][k]
             u == task'[s][k]
         IN  /\ (FetchFailed(t) /\ u.pc \notin {"P_token", "P_fetch"})
                   => IF t.attempts < maxAttempts
                      THEN u.pc = "P_sleep" /\ u.attempts = t.attempts
                      ELSE u.pc = "idle" /\ ~event'.ok
             /\ (t.pc = "P_sleep" /\ u # t)
                   => u.pc = "P_token" /\ u.attempts = t.attempts + 1
             /\ (t.pc \in {"P_token", "P_fetch"} /\ u.pc = "idle")
                   => event'.ok \/ t.attempts = maxAttempts]_vars

C10_RetryAfterFailedFetch ==
    \E s \in Sessions : \E k \in Slots :
        /\ task[s][k].pc = "P_sleep"
        /\ task[s][k].attempts = 2
        /\ task[s][k].resp.status = 500

\* C11: when the response to an update request reports a failure (the
\* command failed remotely, the transport threw, the request was turned
\* away) or the rendered update command is one the Authorizer rejects, the
\* update flow shows an error, releases the flag, leaves the cached version
\* as it was and makes no instance `pending`.
C11_FailedUpdateChangesNothing ==
    [][\A s \in Sessions : \A k \in Slots :
         LET t == task[s][k]
         IN  (/\ t.pc = "U_fetch"
              /\ t.http = "done"
              /\ task'[s][k] # t
              /\ \/ JsonThrows(t.resp)
                 \/ ~t.resp.success
                 \/ ~isCommandAllowed(updateCommand(t.id, t.version)))
                => /\ event'.type = "updateEnded"
                   /\ ~event'.ok
                   /\ event'.alert # "none"
                   /\ ~sshOperationInProgress'[s]
                   /\ servers'[s] = servers[s]
                   /\ \A id \in ServerIds :
                        StatusOf(s, id)' # "pending"]_vars

\* C12: when the restart command fails (the response reports no success,
\* or a throw sends restartServer to its catch block), the instance goes
\* from `pending` back to `idle`, the error is shown, and the poll is never
\* started: the handler ends in that step with no poll attempt made.
C12_FailedRestartReverts ==
    [][\A s \in Sessions : \A k \in Slots :
         LET t == task[s][k]
             u == task'[s][k]
         IN  (\/ /\ t.pc = "R_fetch"
                 /\ t.http = "done"
                 /\ u # t
                 /\ JsonThrows(t.resp) \/ ~t.resp.success
              \/ /\ t.pc = "R_token" \/ (t.pc = "R_fetch" /\ t.http = "sent")
                 /\ u.pc \notin {"R_token", "R_fetch"})
                => /\ u.pc = "idle"
                   /\ StatusOf(s, t.id) = "pending"
                   /\ StatusOf(s, t.id)' = "idle"
                   /\ event'.type = "restartEnded"
                   /\ event'.id = t.id
                   /\ ~event'.ok
                   /\ event'.n = 0
                   /\ event'.alert \in {"Failed to restart server",
                                        "Error restarting server"}]_vars

C12_RevertedAfterFailure ==
    /\ event.type = "restartEnded"
    /\ event.n = 0
    /\ ~event.ok
    /\ event.alert = "Failed to restart server"
    /\ StatusOf(event.sess, event.id) = "idle"
    /\ \A k \in Slots :
         task[event.sess][k].pc \notin {"P_token", "P_fetch", "P_sleep"}

\* C13: when the restart or the update route has admitted the caller and
\* read an inventory that does not list the requested id, it answers 404
\* with a JSON error body; and whatever the caller, a request for an id the
\* inventory does not list is not handed to executeCommand.
C13_UnknownIdNotFound ==
    (/\ event.type = "handled"
     /\ event.op \in {"restart", "update"}
     /\ event.id \notin inventory)
        => LET t == task[event.sess][event.n]
           IN  /\ t.http # "exec"
               /\ (event.auth = "admin" /\ event.lookup = "read")
                     => /\ t.http = "done"
                        /\ t.resp.status = 404
                        /\ t.resp.json
                        /\ ~t.resp.success

C13_RetiredInstanceNotFound ==
    /\ event.type = "handled"
    /\ event.op = "restart"
    /\ event.id = mali
    /\ mali \notin inventory
    /\ event.auth = "admin"
    /\ task[event.sess][event.n].resp.status = 404
    /\ Running = {}

\* C14: a route starts a command, on the droplet or (the backup script) on
\* its own host, only in a step in which requireAdmin found the caller to
\* be an admin; with any other outcome of requireAdmin the route answers
\* with a JSON error of status 401, 403 or 500 and goes no further.
C14_OnlyAdminsRunCommands ==
    [][\A s \in Sessions : \A k \in Slots :
         LET t == task[s][k]
             u == task'[s][k]
             handledHere == /\ event'.type = "handled"
                            /\ event'.sess = s
                            /\ event'.n = k
         IN  /\ (u.http \in {"exec", "local"} /\ t.http \notin {"exec", "local"})
                   => handledHere /\ event'.auth = "admin"
             /\ (handledHere /\ event'.auth # "admin")
                   => /\ u.http = "done"
                      /\ u.resp.json
                      /\ ~u.resp.success
                      /\ u.resp.status \in {401, 403, 500}]_vars

C14_NonAdminTurnedAway ==
    /\ event.type = "handled"
    /\ event.op = "backup"
    /\ event.auth = "notAdmin"
    /\ task[event.sess][event.n].http = "done"
    /\ task[event.sess][event.n].resp.status = 403

\* C15: at no moment are two executeCommand calls running against the
\* droplet, whichever routes they come from (restart, update, version
\* list, the log fetches of a poll or of a log view).
C15_OneCommandOnTransport ==
    Cardinality(Running) <= 1

\* the positions of the handlers that only read: a log view, a status fetch
ReadPcs ==
    {"L_token", "L_fetch", "S_token", "S_fetch"}

\* C16: a log view or a status refresh can be started whether or not the
\* flag is held (only a free handler slot is needed), and no step of a log
\* view, of a status fetch, of a version-list request or of the routes
\* serving them changes the flag, the lifecycle statuses, the ids being
\* updated or restarted, or the cached inventory.
C16_ReadsBypassGuard ==
    /\ [](\A s \in Sessions : \A id \in ServerIds :
            HasFreeSlot(s) => /\ ENABLED openLogsModal(s, id)
                              /\ ENABLED refetchStatuses(s, id))
    /\ [][\A s \in Sessions : \A k \in Slots :
            LET t == task[s][k]
                u == task'[s][k]
            IN  (/\ u # t
                 /\ \/ t.pc \in ReadPcs
                    \/ u.pc \in ReadPcs
                    \/ u.pc = "V_fetch")
                   => /\ sshOperationInProgress' = sshOperationInProgress
                      /\ serverRestartStatuses' = serverRestartStatuses
                      /\ updatingServerId' = updatingServerId
                      /\ restartingServerId' = restartingServerId
                      /\ servers' = servers]_vars

C16_LogsShownDuringPoll ==
    /\ event.type = "logsShown"
    /\ event.ok
    /\ sshOperationInProgress[event.sess]
    /\ StatusOf(event.sess, ghana) = "pending"
    /\ \E k \in Slots : /\ task[event.sess][k].pc = "P_sleep"
                        /\ task[event.sess][k].id = ghana

\* C17: executeCommand returns a result exactly when the command ran on
\* the droplet; when ssh cannot be started or cannot connect, it throws.
C17_TransportFailureThrows ==
    event.type = "executed"
        => (event.ok <=> event.transport = "runs")

\* the status request of handler k has been answered with the instance's
\* health_check data
StatusAnswered(s, k) ==
    /\ task[s][k].pc = "S_fetch"
    /\ task[s][k].http = "done"
    /\ task[s][k].resp.status = 200

ThreeNumeric(version) ==
    LET parts == Split(version, ".")
    IN  /\ Len(parts) = 3
        /\ \A i \in 1..3 : parts[i] # <<>> /\ AllDigits(parts[i])

\* x is not older than y, as (major, minor, patch)
NotOlder(x, y) ==
    LET p == [i \in 1..3 |-> DecimalValue(Split(x, ".")[i])]
        q == [i \in 1..3 |-> DecimalValue(Split(y, ".")[i])]
    IN  \/ p[1] > q[1]
        \/ p[1] = q[1] /\ p[2] > q[2]
        \/ p[1] = q[1] /\ p[2] = q[2] /\ p[3] >= q[3]

\* C19: in the list /api/versions answers with, of any two neighbours that
\* both have three numeric components the first is not older than the
\* second.
C19_NewestFirst ==
    catalogOutput.asked
        => \A i \in 1..(Len(catalogOutput.versions) - 1) :
             LET x == catalogOutput.versions[i]
                 y == catalogOutput.versions[i + 1]
             IN  (ThreeNumeric(x) /\ ThreeNumeric(y)) => NotOlder(x, y)

C19_ReorderedCatalog ==
    /\ catalogInput = Lines(<<TagPrefix \o <<"1",".","6",".","2">>,
                              TagPrefix \o <<"1",".","6",".","1","2">>,
                              TagPrefix \o <<"1",".","6",".","1","1">>>>)
    /\ catalogOutput.asked
    /\ catalogOutput.versions = << <<"1",".","6",".","1","2">>,
                                   <<"1",".","6",".","1","1">>,
                                   <<"1",".","6",".","2">> >>

\* the commands the update and restart routes render for a known instance
RenderedCommands ==
    {updateCommand(id, v) : id \in ServerIds, v \in Versions}
        \cup {restartCommand(id) : id \in ServerIds}

\* C20: the Authorizer accepts every command the backend renders for an
\* update (`wb c update <id> --server <version>`) or a restart
\* (`wb restart <id>`).
C20_RenderedCommandsAccepted ==
    (authResult # "unasked" /\ authInput \in RenderedCommands)
        => authResult = "allowed"

\* C21: no string the Authorizer accepts, under any rule of the allow-list,
\* contains a shell command separator or substitution character
\* (`;`, `|`, `&`, backtick, `$`, newline).
C21_AcceptedHasNoShellCharacter ==
    authResult = "allowed"
        => \A i \in 1..Len(authInput) : authInput[i] \notin ShellCharacters

\* the positions of a handler inside updateServerVersion, restartServer and
\* the readiness poll restartServer awaits
GuardedPcs ==
    {"U_token", "U_fetch", "U_settle"} \cup RestartPcs

\* C22: from the moment an update or a restart is accepted until its
\* command, the restart chained to it and the readiness poll have all
\* finished, the session's guard is held; it is never free while a
\* readiness poll started by the operation is still running.
C22_GuardHeldThroughout ==
    \A s \in Sessions : \A k \in Slots :
        task[s][k].pc \in GuardedPcs => sshOperationInProgress[s]

\* a readiness poll in its second attempt or later, asleep between two
\* fetches, with the guard held
C22_HeldWhilePolling ==
    \E s \in Sessions : \E k \in Slots :
        /\ task[s][k].pc = "P_sleep"
        /\ task[s][k].attempts >= 2
        /\ sshOperationInProgress[s]

\* the restart of instance id in session s has its poll's log fetch
\* answered with the startup marker: the restart command had succeeded
\* (the poll starts on result.success only) and checkLogs returns true
PollSucceedsFor(s, id) ==
    \E k \in Slots :
        /\ task[s][k].id = id
        /\ task[s][k].pc = "P_fetch"
        /\ task[s][k].http = "done"
        /\ ServerIsUp(task[s][k].resp)

\* C23: the lifecycle status of an instance changes only from idle or
\* online to pending and from pending to online or idle; it becomes online
\* only from pending, in the step in which the poll of its restart returns
\* true, and never from idle.
C23_LifecycleTransitions ==
    [][\A s \in Sessions : \A id \in ServerIds :
         StatusOf(s, id)' # StatusOf(s, id)
            => /\ \/ StatusOf(s, id) \in {"idle", "online"}
                       /\ StatusOf(s, id)' = "pending"
                  \/ StatusOf(s, id) = "pending"
                       /\ StatusOf(s, id)' \in {"online", "idle"}
               /\ StatusOf(s, id)' = "online" => PollSucceedsFor(s, id)]_vars

\* a restart whose poll found the marker at its second fetch or later has
\* just ended: the instance went from pending to online
C23_OnlineAfterPending ==
    /\ event.type = "restartEnded"
    /\ event.ok
    /\ event.n >= 2
    /\ StatusOf(event.sess, event.id) = "online"
    /\ ~sshOperationInProgress[event.sess]

\* the positions of a handler inside the Docker Pull handler
PullPcs ==
    {"D_token", "D_fetch", "D_settle", "V_token", "V_fetch"}

\* the update, restart and pull handlers of a session that are in progress
Holders(s) ==
    {k \in Slots : task[s][k].pc \in GuardedPcs \cup PullPcs}

\* C24: in one dashboard session at most one of the update, restart and
\* Docker Pull handlers is in progress at a time, under every interleaving
\* of their steps, and the session's flag is true exactly while one is.
C24_OneHolderPerSession ==
    \A s \in Sessions :
        /\ Cardinality(Holders(s)) <= 1
        /\ sshOperationInProgress[s] <=> Holders(s) # {}

\* a Docker Pull click turned away while a restart of the session is
\* between two fetches of its poll
C24_PullRefusedDuringPoll ==
    /\ event.type = "refused"
    /\ event.op = "pull"
    /\ \E k \in Slots : task[event.sess][k].pc \in {"P_token", "P_fetch"}
    /\ Cardinality(Holders(event.sess)) = 1

\* C25: an update or restart request refused because the guard is held
\* changes nothing: the flag stays set, and the lifecycle statuses, the
\* cached inventory, updatingServerId, restartingServerId and the handlers
\* in progress are as they were.
C25_RefusalChangesNothing ==
    [][(event'.type = "refused" /\ event'.op \in {"update", "restart"})
          => /\ UNCHANGED <<Signals, task, inventory>>
             /\ sshOperationInProgress[event'.sess]
             /\ sshOperationInProgress'[event'.sess]]_vars

\* a restart request has just been refused while an update holds the guard
C25_RestartRefusedDuringUpdate ==
    /\ event.type = "refused"
    /\ event.op = "restart"
    /\ updatingServerId[event.sess] # Null
    /\ sshOperationInProgress[event.sess]
    /\ \E k \in Slots : task[event.sess][k].pc = "U_fetch"

\* C26: the cache mutation after a successful update changes only the
\* version of the instance that was updated, to the version asked for;
\* every other cached record is unchanged, and no other step, a failed
\* restart or readiness poll included, changes a cached version back.
C26_OnlyTargetVersionChanges ==
    [][\A s \in Sessions : \A id \in ServerIds :
         servers'[s][id] # servers[s][id]
            => /\ event'.type = "updated"
               /\ event'.sess = s
               /\ event'.id = id
               /\ servers[s][id] = InitialVersion
               /\ servers'[s][id] \in Versions]_vars

\* a restart of an updated instance has just failed: the cache still shows
\* the new version for it and the old one for the other instance
C26_NewVersionAfterFailedRestart ==
    /\ event.type = "restartEnded"
    /\ ~event.ok
    /\ servers[event.sess][event.id] \in Versions
    /\ \E id \in ServerIds \ {event.id} :
         servers[event.sess][id] = InitialVersion

\* the positions of a handler inside pollServerLogsForStartup
PollPcs ==
    {"P_token", "P_fetch", "P_sleep"}

\* C27: pollServerLogsForStartup returns true exactly when one of its
\* fetches is answered with success = true and logs containing the startup
\* marker; a fetch that fails or is answered with success = false never
\* makes it return true; and it makes at most one fetch in each of at most
\* maxAttempts attempts.
C27_PollResult ==
    /\ [](\A s \in Sessions : \A k \in Slots :
            task[s][k].pc \in PollPcs
                => task[s][k].attempts \in 1..maxAttempts)
    /\ [][\A s \in Sessions : \A k \in Slots :
            LET t == task[s][k]
                u == task'[s][k]
                found == /\ t.pc = "P_fetch"
                         /\ t.http = "done"
                         /\ MarkerInLogs(t.resp)
            IN  /\ (t.pc \in PollPcs /\ u.pc = "idle")
                      => (serverRestartStatuses'[s][t.id] = "online"
                             <=> found)
                /\ (found /\ u # t) => u.pc = "idle"
                /\ (u.pc = "P_fetch" /\ t.pc # "P_fetch")
                      => t.pc = "P_token" /\ u.attempts = t.attempts]_vars

\* a poll has just returned true on the last fetch its budget allows
C27_FoundAtLastAttempt ==
    /\ event.type = "restartEnded"
    /\ event.ok
    /\ event.n = maxAttempts
    /\ event.alert = "restarted and online"

\* C28: the Restart control of an instance is disabled exactly when that
\* instance is restarting or an SSH operation is in progress; with no
\* operation in flight it is enabled.
C28_RestartDisabledWhileBusy ==
    \A s \in Sessions : \A id \in ServerIds :
        restartDisabled(s, id)
            <=> (restartingServerId[s] = id \/ sshOperationInProgress[s])

\* C29: whatever the id, folder and file parameters are, the backup
\* download routes access only paths inside /mnt/fastr-backups, and a
\* request whose path resolves outside it is answered "Invalid path"
\* before any file is accessed.
C29_DownloadsStayInsideBase ==
    downloadAnswer.asked
        => /\ downloadAnswer.accessed => InsideBase(downloadAnswer.path)
           /\ (downloadAnswer.error # "not admitted"
                 /\ ~InsideBase(Resolve(backupPath(downloadRequest))))
                 => /\ downloadAnswer.status = 400
                    /\ downloadAnswer.error = "Invalid path"

\* the well-formed <major>.<minor>.<patch> versions among the tags listed
WellFormedVersions(stdout) ==
    {tags(stdout)[i] : i \in {j \in DOMAIN tags(stdout) :
                                 ThreeNumeric(tags(stdout)[j])}}

\* C30: whenever the tag listing has a well-formed
\* wb-fastr-server-v<major>.<minor>.<patch> tag, the list /api/versions
\* answers with starts with the greatest such version (by major, then
\* minor, then patch).
C30_GreatestVersionFirst ==
    (catalogOutput.asked /\ WellFormedVersions(catalogInput) # {})
        => /\ catalogOutput.versions # <<>>
           /\ catalogOutput.versions[1] \in WellFormedVersions(catalogInput)
           /\ \A v \in WellFormedVersions(catalogInput) :
                NotOlder(catalogOutput.versions[1], v)
====
